---- MODULE Spec2Model ----
(***************************************************************************)
(* Exploration runtime of the graph viewer (GraphViewer component, GPU     *)
(* backend): filter engine, level of detail, focus/hover state machine,    *)
(* camera choreography and the external annotation lookup.                 *)
(*                                                                         *)
(* Conventions                                                             *)
(*  - One action is one browser task: a DOM/Sigma event handler together   *)
(*    with the React render and the effects it triggers (effects run in    *)
(*    declaration order), or one timer / animation-frame / fetch callback. *)
(*  - Time is counted in ticks of TickMs milliseconds.  A duration of the  *)
(*    code is rounded up to whole ticks.  Calls that fall in the same tick *)
(*    are inside each other's 24 ms throttle window.                       *)
(*  - Camera coordinates and ratios are fixed point, in thousandths.       *)
(*  - A camera animation renders two frames: the half-way frame and the    *)
(*    final frame (frames may be dropped by the browser, these two are the *)
(*    ones kept).                                                          *)
(*  - React state and the ref mirroring it (confidence / confidenceRef,    *)
(*    degreeThreshold / degreeThresholdRef, showOnlyNew / showOnlyNewRef,  *)
(*    showAllEdges / showAllEdgesRef) agree at the end of every task, so   *)
(*    one variable stands for both; inside a task the stale value is used  *)
(*    where the code reads the stale one.                                  *)
(***************************************************************************)
EXTENDS Integers, FiniteSets, Sequences, TLC

(***************************************************************************)
(* Bounds of the model                                                     *)
(***************************************************************************)
MaxThr == 2
MaxEvents == 2
MaxFocusEvents == 3
MaxFilterEvents == 3
MaxSessions == 2
MaxLifeEvents == 2
MaxDefocusEvents == 3
MaxLodEvents == 2
MaxCanvasEvents == 3
MaxLines == 3
MaxRows == 2
steps == 2

(***************************************************************************)
(* Durations of the code, in milliseconds, and their length in ticks       *)
(***************************************************************************)
TickMs == 50
ThrottleMs == 24
CamThrottleMs == 120
GeneFocusMs == 50
GeneClickMs == 150
GeneHoverMs == 250
DefocusMs == 180
AnimMs == 500
AnimDoneMs == 520

Ticks(ms) == (ms + TickMs - 1) \div TickMs

(***************************************************************************)
(* Thresholds of the code, in thousandths                                  *)
(***************************************************************************)
ClusterRatio == 1200
EdgeCutoff == 1500
SizeStep == 80
MinTargetRatio == 250
MaxTargetRatio == 1000
ZoomPercent == 65
MinBaseSize == 400
HoverFactor == 28
PlainFactor == 10

Max(a, b) == IF a >= b THEN a ELSE b
Min(a, b) == IF a <= b THEN a ELSE b
Abs(a) == IF a >= 0 THEN a ELSE 0 - a

(***************************************************************************)
(* Datasets (graph.json).  "scenario" is the three-row table of the        *)
(* specification; "mixed" adds a node that touches no novel edge and edges *)
(* that carry no confidence score.                                         *)
(***************************************************************************)
NoNode == "null"
NoScore == 0 - 1
Datasets == {"scenario", "mixed"}
ClusterNodes == {"cluster:0"}

DataNodes(d) ==
  IF d = "scenario" THEN {"p1", "p2", "p3"} ELSE {"p1", "p2", "p3", "p4"}

DataEdges(d) ==
  IF d = "scenario"
  THEN { [id |-> "p1-p2", source |-> "p1", target |-> "p2", allDBs |-> "dbX",  afmprob |-> 90],
         [id |-> "p2-p3", source |-> "p2", target |-> "p3", allDBs |-> "none", afmprob |-> 95],
         [id |-> "p1-p3", source |-> "p1", target |-> "p3", allDBs |-> "none", afmprob |-> 20] }
  ELSE { [id |-> "p1-p2", source |-> "p1", target |-> "p2", allDBs |-> "dbX",  afmprob |-> 90],
         [id |-> "p2-p3", source |-> "p2", target |-> "p3", allDBs |-> "none", afmprob |-> NoScore],
         [id |-> "p1-p3", source |-> "p1", target |-> "p3", allDBs |-> "none", afmprob |-> 20],
         [id |-> "p1-p4", source |-> "p1", target |-> "p4", allDBs |-> "dbY",  afmprob |-> NoScore] }

AllNodes == {"p1", "p2", "p3", "p4"} \cup ClusterNodes
AllEdgeIds == {"p1-p2", "p2-p3", "p1-p3", "p1-p4"}

DataPos(n) ==
  CASE n = "p1" -> [x |-> 0,   y |-> 0]
    [] n = "p2" -> [x |-> 100, y |-> 0]
    [] n = "p3" -> [x |-> 50,  y |-> 100]
    [] n = "p4" -> [x |-> 100, y |-> 100]
    [] OTHER    -> [x |-> 50,  y |-> 40]

VARIABLES
  dataset,          \* the dataset loaded by init
  degreeThreshold,  \* degreeThreshold state / degreeThresholdRef
  confidence,       \* confidence state / confidenceRef, in hundredths
  showOnlyNew,      \* showOnlyNew state / showOnlyNewRef
  showAllEdges,     \* showAllEdges state / showAllEdgesRef
  totals,           \* totals state
  focusedInfo,      \* focusedInfo state
  geneInfo,         \* geneInfo state: the name whose annotation is displayed
  geneTimer,        \* geneTimerRef: pending debounce timer
  geneFetch,        \* the lookup in flight that geneAbortRef has not aborted
  geneCache,        \* geneCacheRef
  focusedNodeRef,
  prevCamStateRef,
  defocusTimer,     \* defocusTimerRef: ticks left, -1 when none is pending
  isAnimatingRef,
  suspendLOD,       \* window.__suspendLOD
  clusterModeRef,
  lastLOD,          \* lastLOD of updateLOD
  renderEdges,      \* Sigma setting renderEdges
  hidden,           \* node attribute hidden
  label,            \* node attribute label: TRUE when the name is shown
  color,            \* node attribute color
  size,             \* node attribute size, as a multiple of sqrt(max(1,degree))
  baseSize,         \* node attribute baseSize, same unit
  edgeHidden,       \* edge attribute hidden
  cam,              \* Sigma camera state
  anim,             \* Sigma camera animation in flight
  doneTimers,       \* pending animation-done timers
  sinceSetHovered,  \* ticks since the throttled setHovered last ran
  sincePreview,     \* ticks since the throttled previewHover last ran
  sinceCamUpdate,   \* ticks since onCamUpdate last ran
  pointerNode,      \* node under the pointer (Sigma's hovered node)
  fallback,         \* viewRef and the locals of the canvas backend's closure
  batch,            \* the run of the tsv-to-graph script: its locals, files and exit
  previewNode,      \* history: node whose hover preview the edges show
  camAtFocusEntry,  \* history: camera state when Focused was last entered
  focusHopped,      \* history: the last focus episode had a Focused->Focused hop
  roundTrip,        \* history: pre-focus attributes of a focus/defocus trip
  defocusCancelled, \* history: a pending defocus timer was cleared before it fired
  lookupAborted,    \* history: the last task aborted a lookup that was in flight
  events,           \* number of user events so far
  budget,           \* number of user events explored
  viewMode,         \* viewMode state
  mounted,          \* the component is mounted: containerRef.current is set
  webgl,            \* what isWebGLAvailable() answers in this browser
  session,          \* number of runs of the [viewMode] effect so far
  initPc,           \* where init() of each run of the effect stands
  disposed,         \* runs of the effect whose `disposed` flag is set
  sigmaLive,        \* runs whose Sigma instance is constructed and not killed
  canvasLive,       \* runs whose canvas-fallback listeners and observer are registered
  sigmaRef          \* sigmaRef.current: the run whose Sigma it holds, 0 for null

progVars == <<dataset, degreeThreshold, confidence, showOnlyNew, showAllEdges,
              totals, focusedInfo, geneInfo, geneTimer, geneFetch, geneCache,
              focusedNodeRef, prevCamStateRef, defocusTimer, isAnimatingRef,
              suspendLOD, clusterModeRef, lastLOD, renderEdges, hidden, label, color, size,
              baseSize, edgeHidden, cam, anim, doneTimers, sinceSetHovered,
              sincePreview, sinceCamUpdate, pointerNode, fallback, batch>>
lifeVars == <<viewMode, mounted, webgl, session, initPc, disposed, sigmaLive,
              canvasLive, sigmaRef>>
vars == <<progVars, previewNode, camAtFocusEntry, focusHopped, roundTrip,
          defocusCancelled, lookupAborted, events, budget,
          lifeVars>>

(***************************************************************************)
(* The graph built by init                                                 *)
(***************************************************************************)
GraphNodes(d) == DataNodes(d) \cup ClusterNodes
EdgeOf(d, id) == CHOOSE e \in DataEdges(d) : e.id = id
EdgeIds(d) == {e.id : e \in DataEdges(d)}
IsCluster(n) == n \in ClusterNodes
Endpoints(e) == {e.source, e.target}
Incident(e, n) == e.source = n \/ e.target = n
Other(e, n) == IF e.source = n THEN e.target ELSE e.source

\* the degree attribute: the dataset's degree, 0 for a cluster meta-node
Degree(d, n) ==
  IF IsCluster(n) THEN 0 ELSE Cardinality({e \in DataEdges(d) : Incident(e, n)})

\* data.adjacency
Adjacency(d, n) ==
  IF IsCluster(n) THEN {} ELSE {Other(e, n) : e \in {f \in DataEdges(d) : Incident(f, n)}}

IsNone(e) == e.allDBs = "none"
NodesBlue(d) == UNION {Endpoints(e) : e \in {f \in DataEdges(d) : IsNone(f)}}

\* minProb of init
MinProb(d) ==
  LET scores == {e.afmprob : e \in {f \in DataEdges(d) : f.afmprob # NoScore}}
  IN IF scores = {} THEN 0 ELSE CHOOSE m \in scores : \A v \in scores : m <= v

ShowEdges == TRUE

(***************************************************************************)
(* The three filter predicates                                             *)
(***************************************************************************)
HideByConfMissingAsZero(e, conf) ==
  (IF e.afmprob = NoScore THEN 0 ELSE e.afmprob) < conf

HideByConf(e, conf) == e.afmprob # NoScore /\ e.afmprob < conf

HideByNewEdge(e, onlyNew) == onlyNew /\ ~IsNone(e)

HideByDeg(d, n, thr) == thr > 0 /\ Degree(d, n) < thr

HideByNew(d, n, onlyNew) == onlyNew /\ n \notin NodesBlue(d)

\* visibleNodes of the totals computations
VisibleNodes(d, thr, onlyNew) ==
  {n \in DataNodes(d) : ~(HideByDeg(d, n, thr) \/ HideByNew(d, n, onlyNew))}

\* recomputeTotalsImmediate, and the copy in the showOnlyNew effect
CountTotals(d, thr, onlyNew, conf) ==
  LET vis == VisibleNodes(d, thr, onlyNew)
      es  == {e \in DataEdges(d) : /\ e.source \in vis /\ e.target \in vis
                                   /\ ~HideByConf(e, conf)
                                   /\ ~HideByNewEdge(e, onlyNew)}
  IN [nodes |-> Cardinality(vis), edges |-> Cardinality(es),
      blueEdges |-> Cardinality({e \in es : IsNone(e)})]

\* the copy in the degreeThreshold effect: no confidence test
CountTotalsDegreeEffect(d, thr, onlyNew) ==
  LET vis == VisibleNodes(d, thr, onlyNew)
      es  == {e \in DataEdges(d) : /\ e.source \in vis /\ e.target \in vis
                                   /\ ~HideByNewEdge(e, onlyNew)}
  IN [nodes |-> Cardinality(vis), edges |-> Cardinality(es),
      blueEdges |-> Cardinality({e \in es : IsNone(e)})]

\* totals set by init: the unfiltered dataset
InitTotals(d) ==
  [nodes |-> Cardinality(DataNodes(d)), edges |-> Cardinality(DataEdges(d)),
   blueEdges |-> Cardinality({e \in DataEdges(d) : IsNone(e)})]

\* recomputeFocusedInfoImmediate, and the copies in setHovered and in the
\* showOnlyNew effect
FocusedCounts(d, node, thr, onlyNew, conf) ==
  LET es == {e \in DataEdges(d) : /\ Incident(e, node)
                                  /\ Other(e, node) \in VisibleNodes(d, thr, onlyNew)
                                  /\ ~HideByConf(e, conf)
                                  /\ ~HideByNewEdge(e, onlyNew)}
  IN [id |-> node, degree |-> Cardinality(es),
      blue |-> Cardinality({e \in es : IsNone(e)})]

\* the copy in the degreeThreshold effect: no confidence test
FocusedCountsDegreeEffect(d, node, thr, onlyNew) ==
  LET es == {e \in DataEdges(d) : /\ Incident(e, node)
                                  /\ Other(e, node) \in VisibleNodes(d, thr, onlyNew)
                                  /\ ~HideByNewEdge(e, onlyNew)}
  IN [id |-> node, degree |-> Cardinality(es),
      blue |-> Cardinality({e \in es : IsNone(e)})]

NoFocusedInfo == [id |-> NoNode, degree |-> 0, blue |-> 0]

(***************************************************************************)
(* Camera                                                                  *)
(***************************************************************************)
NoCam == [x |-> 0 - 1, y |-> 0 - 1, ratio |-> 0 - 1]
NoAnim == [active |-> FALSE, from |-> NoCam, to |-> NoCam, due |-> 0, phase |-> 0]
InitCam == [x |-> 500, y |-> 500, ratio |-> 1000]

clamp(v, a, b) == Max(a, Min(b, v))

\* getGraphBounds: bounding box of the ordinary nodes
GraphBounds(d) ==
  LET xs == {DataPos(n).x : n \in DataNodes(d)}
      ys == {DataPos(n).y : n \in DataNodes(d)}
  IN [minX |-> CHOOSE v \in xs : \A w \in xs : v <= w,
      maxX |-> CHOOSE v \in xs : \A w \in xs : v >= w,
      minY |-> CHOOSE v \in ys : \A w \in ys : v <= w,
      maxY |-> CHOOSE v \in ys : \A w \in ys : v >= w]

\* the focus target of setHovered: relative zoom-in, centre clamped so that the
\* frame stays inside [ratio/2, 1 - ratio/2]
FocusTarget(d, node, current) ==
  LET targetRatio == Max(MinTargetRatio, Min(MaxTargetRatio, (current.ratio * ZoomPercent) \div 100))
      b  == GraphBounds(d)
      nx == ((DataPos(node).x - b.minX) * 1000) \div Max(1, b.maxX - b.minX)
      ny == ((DataPos(node).y - b.minY) * 1000) \div Max(1, b.maxY - b.minY)
      mx == targetRatio \div 2
      my == targetRatio \div 2
  IN [x |-> clamp(nx, mx, 1000 - mx), y |-> clamp(ny, my, 1000 - my), ratio |-> targetRatio]

\* the half-way frame of an animation (quadraticInOut(1/2) = 1/2)
MidFrame(from, to) ==
  [x |-> (from.x + to.x) \div 2, y |-> (from.y + to.y) \div 2,
   ratio |-> (from.ratio + to.ratio) \div 2]

(***************************************************************************)
(* Canvas backend: numbers.  A JavaScript number is modelled as an exact   *)
(* fraction n/d in lowest terms with d > 0.                                *)
(***************************************************************************)
RECURSIVE GCD(_, _)
GCD(a, b) == IF b = 0 THEN a ELSE GCD(b, a % b)

Frac(n, d) ==
  LET m == IF d < 0 THEN 0 - n ELSE n
      e == Abs(d)
      g == GCD(Abs(m), e)
  IN [n |-> m \div g, d |-> e \div g]

Num(i) == [n |-> i, d |-> 1]
Plus(a, b) ==
  LET g == GCD(a.d, b.d)
  IN Frac(a.n * (b.d \div g) + b.n * (a.d \div g), (a.d \div g) * b.d)
Minus(a, b) == Plus(a, [n |-> 0 - b.n, d |-> b.d])
Times(a, b) ==
  LET g == GCD(Abs(a.n), b.d)
      h == GCD(Abs(b.n), a.d)
  IN Frac((a.n \div g) * (b.n \div h), (a.d \div h) * (b.d \div g))
Over(a, b) == Times(a, IF b.n < 0 THEN [n |-> 0 - b.d, d |-> 0 - b.n] ELSE [n |-> b.d, d |-> b.n])
Less(a, b) == Minus(a, b).n < 0
AtMost(a, b) == Minus(a, b).n <= 0
MathMin(a, b) == IF AtMost(a, b) THEN a ELSE b
MathMax(a, b) == IF AtMost(a, b) THEN b ELSE a

(***************************************************************************)
(* Canvas backend: the view transform and the functions of the handlers    *)
(***************************************************************************)
\* canvas.getBoundingClientRect() of the fallback canvas, in CSS pixels
CanvasWidth == 240
CanvasHeight == 140

Padding == 20
MinScale == Frac(1, 10)
MaxScale == Num(4)
MinClickScale == Frac(4, 10)
MaxClickScale == Num(3)
ClickZoom == Frac(14, 10)
ClickRadius2 == 49
HoverRadius2 == 25

\* data.nodes as the canvas backend maps them: every node of the dataset,
\* without the cluster meta-nodes (those come from data.clusters)
CanvasNodes(d) == DataNodes(d)
NodePoint(n) == [x |-> Num(DataPos(n).x), y |-> Num(DataPos(n).y)]

\* the min/max loop over nodes of computeFit and of onClick
NodeBounds(d) ==
  LET xs == {DataPos(n).x : n \in CanvasNodes(d)}
      ys == {DataPos(n).y : n \in CanvasNodes(d)}
  IN [minX |-> CHOOSE v \in xs : \A w \in xs : v <= w,
      maxX |-> CHOOSE v \in xs : \A w \in xs : v >= w,
      minY |-> CHOOSE v \in ys : \A w \in ys : v <= w,
      maxY |-> CHOOSE v \in ys : \A w \in ys : v >= w]

\* viewRef.current as useRef creates it
NoView == [scale |-> Num(1), tx |-> Num(0), ty |-> Num(0)]

\* computeFit
ComputeFit(d) ==
  LET b == NodeBounds(d)
      dx == IF b.maxX - b.minX = 0 THEN 1 ELSE b.maxX - b.minX
      dy == IF b.maxY - b.minY = 0 THEN 1 ELSE b.maxY - b.minY
      sx == Frac(CanvasWidth - 2 * Padding, dx)
      sy == Frac(CanvasHeight - 2 * Padding, dy)
      scale == MathMin(sx, sy)
      half(len, span) == Over(Minus(Num(len), Plus(Times(Num(span), scale), Num(2 * Padding))), Num(2))
  IN [scale |-> scale,
      tx |-> Plus(Minus(Num(Padding), Times(Num(b.minX), scale)), half(CanvasWidth, dx)),
      ty |-> Plus(Minus(Num(Padding), Times(Num(b.minY), scale)), half(CanvasHeight, dy))]

worldToScreen(view, p) ==
  [x |-> Plus(Times(p.x, view.scale), view.tx), y |-> Plus(Times(p.y, view.scale), view.ty)]

screenToWorld(view, p) ==
  [x |-> Over(Minus(p.x, view.tx), view.scale), y |-> Over(Minus(p.y, view.ty), view.scale)]

\* squared world distance of node n to the world point w
Dist2(n, w) ==
  LET dx == Minus(NodePoint(n).x, w.x)
      dy == Minus(NodePoint(n).y, w.y)
  IN Plus(Times(dx, dx), Times(dy, dy))

\* the nearest-node loop of onClick and onMove: the nearest node if it lies
\* within the pick radius (r2 square pixels) of the screen point p
Picked(d, view, p, r2) ==
  LET w == screenToWorld(view, p)
      nearest == {n \in CanvasNodes(d) : \A m \in CanvasNodes(d) : AtMost(Dist2(n, w), Dist2(m, w))}
      best == CHOOSE n \in nearest : TRUE
  IN IF Less(Dist2(best, w), Over(Num(r2), Times(view.scale, view.scale))) THEN best ELSE NoNode

\* targetScale of onClick
ClickScale(view) == MathMin(MaxClickScale, MathMax(MinClickScale, Times(view.scale, ClickZoom)))

\* the target centre of onClick
ClickCenter(d, node, targetScale) ==
  LET b == NodeBounds(d)
      center == NodePoint(node)
      mx == Over(Over(Num(CanvasWidth), targetScale), Num(2))
      my == Over(Over(Num(CanvasHeight), targetScale), Num(2))
      halfW == Frac(b.maxX - b.minX, 2)
      halfH == Frac(b.maxY - b.minY, 2)
      fclamp(v, lo, hi) == MathMax(lo, MathMin(hi, v))
  IN [x |-> IF AtMost(halfW, Num(0)) \/ AtMost(halfH, Num(0)) \/ AtMost(halfW, mx) \/ AtMost(halfH, my)
            THEN center.x
            ELSE fclamp(center.x, Plus(Num(b.minX), mx), Minus(Num(b.maxX), mx)),
      y |-> IF AtMost(halfW, Num(0)) \/ AtMost(halfH, Num(0)) \/ AtMost(halfH, mx) \/ AtMost(halfH, my)
            THEN center.y
            ELSE fclamp(center.y, Plus(Num(b.minY), my), Minus(Num(b.maxY), my))]

\* newScale of onWheel
WheelScale(view, factor) == MathMin(MaxScale, MathMax(MinScale, Times(view.scale, factor)))

WheelViewKeepsOffsets(view, p, factor) ==
  [view EXCEPT !.scale = WheelScale(view, factor)]

\* the view transform onWheel leaves: the new scale, and the offsets moved by
\* the distance between the pointer and where its world point would land
WheelView(view, p, factor) ==
  LET worldBefore == screenToWorld(view, p)
      newScale == WheelScale(view, factor)
      screenAfter == [x |-> Plus(Times(worldBefore.x, newScale), view.tx),
                      y |-> Plus(Times(worldBefore.y, newScale), view.ty)]
  IN [scale |-> newScale,
      tx |-> Plus(view.tx, Minus(p.x, screenAfter.x)),
      ty |-> Plus(view.ty, Minus(p.y, screenAfter.y))]

\* quadraticInOut as tick computes it
Ease(t) ==
  IF Less(t, Frac(1, 2)) THEN Times(Num(2), Times(t, t))
  ELSE Plus(Num(0 - 1), Times(Minus(Num(4), Times(Num(2), t)), t))

\* the view transform frame i of an animation writes
FrameView(start, targetCenter, targetScale, i) ==
  LET ease == Ease(Frac(i, steps))
      scale == Plus(start.scale, Times(Minus(targetScale, start.scale), ease))
  IN [scale |-> scale,
      tx |-> Minus(Frac(CanvasWidth, 2), Times(targetCenter.x, scale)),
      ty |-> Minus(Frac(CanvasHeight, 2), Times(targetCenter.y, scale))]

\* the canvas backend before either fallback has started
NoPoint == [x |-> Num(0 - 1), y |-> Num(0 - 1)]
NoFallback ==
  [kind |-> "none", view |-> NoView, hasInteracted |-> FALSE, hovered |-> NoNode,
   isPanning |-> FALSE, panStart |-> NoPoint, viewStart |-> NoView,
   isAnimating |-> FALSE, animToken |-> 0, ticks |-> {}]

\* the closure state when startCanvasFallback ("probe") or the fallback of
\* the catch block ("exception") has run to its end
StartedFallback(d, kind) ==
  [NoFallback EXCEPT !.kind = kind, !.view = ComputeFit(d)]

(***************************************************************************)
(* Offline pipeline (tsv-to-graph script): lines, cells and header         *)
(* detection.  A cell is a sequence of characters, a line the sequence of  *)
(* its tab-separated cells (an empty line is one empty cell).              *)
(***************************************************************************)
\* --source and --target of the run
sourceCol == <<"p", "1">>
targetCol == <<"p", "2">>

ToLowerCase(c) == IF c = "P" THEN "p" ELSE c
IsAlnum(c) == c \in {"p", "g", "x", "a", "b", "1", "2"}

\* norm: trim, lower case, drop everything but letters and digits
norm(cell) == SelectSeq([i \in 1..Len(cell) |-> ToLowerCase(cell[i])], IsAlnum)

\* String.prototype.trim
RECURSIVE trim(_)
trim(cell) ==
  IF cell = <<>> THEN cell
  ELSE IF Head(cell) = " " THEN trim(Tail(cell))
  ELSE IF cell[Len(cell)] = " " THEN trim(SubSeq(cell, 1, Len(cell) - 1))
  ELSE cell

\* String.prototype.includes
includes(h, want) ==
  \E i \in 0..(Len(h) - Len(want)) : SubSeq(h, i + 1, i + Len(want)) = want

\* the test of findIndex: `h === want || h.includes(want)`
MatchesColumn(h, want) == h = want \/ includes(h, want)

\* colsNorm.findIndex(...), counted from 1; 0 stands for -1
findIndex(cols, want) ==
  LET hits == {i \in 1..Len(cols) : MatchesColumn(norm(cols[i]), norm(want))}
  IN IF hits = {} THEN 0 ELSE CHOOSE i \in hits : \A j \in hits : i <= j

\* `!line` and line.startsWith('#')
IsEmptyLine(line) == line = << <<>> >>
IsComment(line) == line[1] # <<>> /\ line[1][1] = "#"

\* parts[idx] || '', trimmed
Part(line, idx) == IF idx \in 1..Len(line) THEN trim(line[idx]) ELSE <<>>

\* the lines input files are made of
InputLines ==
  { << <<>> >>,
    << <<"#">>, <<"p", "1">>, <<"p", "2">> >>,
    << <<"p", "1">>, <<"p", "2">> >>,
    << <<"P", "_", "1">>, <<"x", "p", "2">> >>,
    << <<"g">>, <<"p", "2">> >>,
    << <<"a">>, <<"b">> >>,
    << <<"a">>, <<" ">> >> }

\* proteins and localities the data rows of an input table name
Proteins == {"A", "B", "C"}
Localities == {"L1", "L2"}

\* a dataset before anything is pushed to it: nodesOut / edgesOut
NoOut == [nodes |-> {}, edges |-> {}]

\* the run before it has started
NoBatch ==
  [pc |-> "none", arg |-> "missing", input |-> <<>>, next |-> 1, header |-> FALSE, sIdx |-> 0, tIdx |-> 0,
   nodeSet |-> {}, edgesRaw |-> {}, files |-> {}, exitCode |-> 0 - 1, message |-> FALSE,
   rows |-> <<>>, edgesRawLoc |-> <<>>, nodeHasNone |-> {},
   proteinToLocs |-> [p \in Proteins |-> <<>>], out |-> NoOut, outLoc |-> NoOut]

(***************************************************************************)
(* The program state as a record, so that the statements of one task can   *)
(* be composed in program order.                                           *)
(***************************************************************************)
Cur ==
  [dataset |-> dataset, degreeThreshold |-> degreeThreshold, confidence |-> confidence,
   showOnlyNew |-> showOnlyNew, showAllEdges |-> showAllEdges, totals |-> totals,
   focusedInfo |-> focusedInfo, geneInfo |-> geneInfo, geneTimer |-> geneTimer,
   geneFetch |-> geneFetch, geneCache |-> geneCache, focusedNodeRef |-> focusedNodeRef,
   prevCamStateRef |-> prevCamStateRef, defocusTimer |-> defocusTimer,
   isAnimatingRef |-> isAnimatingRef, suspendLOD |-> suspendLOD,
   clusterModeRef |-> clusterModeRef, lastLOD |-> lastLOD,
   renderEdges |-> renderEdges, hidden |-> hidden,
   label |-> label, color |-> color, size |-> size, baseSize |-> baseSize,
   edgeHidden |-> edgeHidden, cam |-> cam, anim |-> anim, doneTimers |-> doneTimers,
   sinceSetHovered |-> sinceSetHovered, sincePreview |-> sincePreview,
   sinceCamUpdate |-> sinceCamUpdate, pointerNode |-> pointerNode,
   fallback |-> fallback, batch |-> batch, previewNode |-> previewNode,
   lookupAborted |-> FALSE]

NoGeneTimer == [node |-> NoNode, left |-> 0]

\* window.setTimeout(() => fetchGeneSummary(name), ms), after clearing the
\* pending one
ScheduleGene(st, node, ms) ==
  [st EXCEPT !.geneTimer = [node |-> node, left |-> Ticks(ms)]]

\* cam.animate(target, {duration: 500}): replaces the animation in flight
\* and starts from the current camera state; the 520 ms done timer of kind
\* "focus" also clears __suspendLOD.  Timers of earlier animations are
\* marked superseded (history only: the code keeps no such mark).
StartAnimation(st, target, kind) ==
  [st EXCEPT !.anim = [active |-> TRUE, from |-> st.cam, to |-> target,
                       due |-> Ticks(AnimMs) \div 2, phase |-> 0],
             !.doneTimers = {[t EXCEPT !.superseded = TRUE] : t \in st.doneTimers}
                            \cup {[left |-> Ticks(AnimDoneMs), kind |-> kind, superseded |-> FALSE]}]

(***************************************************************************)
(* setHovered (the body under the 24 ms throttle)                          *)
(***************************************************************************)
\* neighbours of the node under the only-new and confidence filters
Neighbors(st, node) ==
  IF node = NoNode THEN {}
  ELSE {node} \cup UNION {Endpoints(e) : e \in
          {f \in DataEdges(st.dataset) : /\ Incident(f, node)
                                         /\ ~HideByNewEdge(f, st.showOnlyNew)
                                         /\ ~HideByConf(f, st.confidence)}}

HeatOrPlain(d, n, isNeighbor) ==
  IF n \in NodesBlue(d) THEN (IF isNeighbor THEN "heat" ELSE "heatDim")
  ELSE (IF isNeighbor THEN "undef" ELSE "grey")

\* the forEachNode pass of setHovered
HoverNodeAttrs(st, node) ==
  LET d  == st.dataset
      nb == Neighbors(st, node)
      isNeighbor(n) == IF node # NoNode THEN n \in nb ELSE TRUE
      hid(n) == IF node # NoNode
                THEN (~isNeighbor(n) \/ HideByNew(d, n, st.showOnlyNew))
                ELSE (HideByDeg(d, n, st.degreeThreshold) \/ HideByNew(d, n, st.showOnlyNew))
  IN [st EXCEPT
       !.color  = [n \in GraphNodes(d) |-> IF IsCluster(n) THEN st.color[n]
                                           ELSE HeatOrPlain(d, n, isNeighbor(n))],
       !.hidden = [n \in GraphNodes(d) |-> IF IsCluster(n) THEN st.hidden[n]
                                           ELSE (IF st.clusterModeRef THEN TRUE ELSE hid(n))],
       !.label  = [n \in GraphNodes(d) |-> IF IsCluster(n) THEN st.label[n]
                                           ELSE (node # NoNode /\ isNeighbor(n))],
       !.size   = [n \in GraphNodes(d) |-> IF IsCluster(n) THEN st.size[n]
                                           ELSE (st.baseSize[n] \div PlainFactor)
                                                * (IF n = node THEN HoverFactor ELSE PlainFactor)]]

\* the forEachEdge pass of setHovered; focusedNodeRef still has the value
\* it had before this call
HoverEdgeAttrs(st, node) ==
  LET d  == st.dataset
      nb == Neighbors(st, node)
      hideE(e) ==
        IF ShowEdges /\ ~st.showAllEdges
        THEN LET visible == node # NoNode /\ e.source \in nb /\ e.target \in nb
             IN ~visible \/ HideByNewEdge(e, st.showOnlyNew) \/ HideByConf(e, st.confidence)
        ELSE LET notFocused == st.focusedNodeRef = NoNode
                 defaultHidden == ~(st.showAllEdges /\ notFocused)
             IN defaultHidden \/ HideByNewEdge(e, st.showOnlyNew) \/ HideByConf(e, st.confidence)
  IN [st EXCEPT !.edgeHidden = [id \in EdgeIds(d) |-> hideE(EdgeOf(d, id))],
                !.previewNode = NoNode]

SnapshotOnFocusAlways(node, focused, prev, current) ==
  IF focused # node THEN current ELSE prev

\* "Save previous cam state only if we are focusing a new node"
SnapshotOnFocus(node, focused, prev, current) ==
  IF focused # node
  THEN (IF focused = NoNode THEN current ELSE prev)
  ELSE prev

\* the "Camera focus" branch of setHovered, node given
HoverFocus(st, node) ==
  LET d   == st.dataset
      s1  == ScheduleGene(st, node, GeneFocusMs)
      s2  == [s1 EXCEPT
                !.prevCamStateRef = SnapshotOnFocus(node, st.focusedNodeRef, st.prevCamStateRef, st.cam),
                !.focusedNodeRef = node,
                !.focusedInfo = FocusedCounts(d, node, st.degreeThreshold, st.showOnlyNew, st.confidence)]
      target == FocusTarget(d, node, st.cam)
  IN IF ~s2.isAnimatingRef
     THEN StartAnimation([s2 EXCEPT !.suspendLOD = TRUE, !.isAnimatingRef = TRUE], target, "focus")
     ELSE s2

HoverDefocusAtOnce(st) == [st EXCEPT !.focusedNodeRef = NoNode, !.focusedInfo = NoFocusedInfo]

\* the defocus branch of setHovered: (re)arm the 180 ms timer
HoverDefocus(st) == [st EXCEPT !.defocusTimer = Ticks(DefocusMs)]

SetHoveredBody(st, node) ==
  LET s1 == HoverEdgeAttrs(HoverNodeAttrs(st, node), node)
  IN IF node # NoNode THEN HoverFocus(s1, node)
     ELSE IF s1.focusedNodeRef # NoNode THEN HoverDefocus(s1)
     ELSE s1

\* throttle(fn, 24): a call inside the window is dropped
SetHovered(st, node) ==
  IF st.sinceSetHovered < Ticks(ThrottleMs) THEN st
  ELSE SetHoveredBody([st EXCEPT !.sinceSetHovered = 0], node)

\* the callback of the defocus timer
DefocusCallback(st) ==
  LET d  == st.dataset
      to == IF st.prevCamStateRef # NoCam THEN st.prevCamStateRef
            ELSE [st.cam EXCEPT !.ratio = 1000]
      s1 == StartAnimation([st EXCEPT !.isAnimatingRef = TRUE], to, "defocus")
  IN [s1 EXCEPT
       !.defocusTimer = 0 - 1,
       !.focusedNodeRef = NoNode,
       !.focusedInfo = NoFocusedInfo,
       !.hidden = [n \in GraphNodes(d) |-> IF IsCluster(n) THEN st.hidden[n]
                     ELSE (HideByDeg(d, n, st.degreeThreshold) \/ HideByNew(d, n, st.showOnlyNew))],
       !.label  = [n \in GraphNodes(d) |-> IF IsCluster(n) THEN st.label[n] ELSE FALSE],
       !.color  = [n \in GraphNodes(d) |-> IF IsCluster(n) THEN st.color[n]
                     ELSE HeatOrPlain(d, n, TRUE)],
       !.size   = [n \in GraphNodes(d) |-> IF IsCluster(n) THEN st.size[n] ELSE st.baseSize[n]],
       !.edgeHidden = [id \in EdgeIds(d) |->
                        IF HideByNewEdge(EdgeOf(d, id), st.showOnlyNew) \/ HideByConf(EdgeOf(d, id), st.confidence)
                        THEN TRUE ELSE st.edgeHidden[id]]]

(***************************************************************************)
(* previewHover (under its own 24 ms throttle)                             *)
(***************************************************************************)
PreviewHoverBody(st, node) ==
  LET d == st.dataset
      nbSet == IF node = NoNode THEN {} ELSE {node} \cup Adjacency(d, node)
  IN IF st.focusedNodeRef # NoNode THEN st
     ELSE [st EXCEPT
            !.label = [n \in GraphNodes(d) |-> n = node],
            !.previewNode = node,
            !.edgeHidden = [id \in EdgeIds(d) |->
               IF ShowEdges
               THEN ~(node # NoNode /\ EdgeOf(d, id).source \in nbSet /\ EdgeOf(d, id).target \in nbSet)
               ELSE TRUE]]

PreviewHover(st, node) ==
  IF st.sincePreview < Ticks(ThrottleMs) THEN st
  ELSE PreviewHoverBody([st EXCEPT !.sincePreview = 0], node)

(***************************************************************************)
(* Level of detail and the camera handler                                  *)
(***************************************************************************)
ModeSwitchesAlways(clusterMode, applied) == TRUE

\* the guard of the cluster toggle: `clusterMode !== clusterModeRef.current`
ModeSwitches(clusterMode, applied) == clusterMode # applied

DrawEdgesNoCutoff(showAll, showE, ratio) == showAll \/ showE

\* drawEdges of updateLOD, and the same expression in the showAllEdges effect
DrawEdges(showAll, showE, ratio) == showAll \/ (showE /\ ratio < EdgeCutoff)

UpdateLOD(st) ==
  LET d == st.dataset
      ratio == st.cam.ratio
      clusterMode == ratio > ClusterRatio
      s0 == [st EXCEPT !.renderEdges = DrawEdges(st.showAllEdges, ShowEdges, ratio)]
      s1 == IF ModeSwitches(clusterMode, st.clusterModeRef)
            THEN [s0 EXCEPT
                   !.clusterModeRef = clusterMode,
                   !.hidden = [n \in GraphNodes(d) |->
                      IF clusterMode THEN ~IsCluster(n)
                      ELSE IF IsCluster(n) THEN TRUE
                      ELSE Degree(d, n) < st.degreeThreshold]]
            ELSE s0
      base == IF ratio > 1000 THEN 1000 ELSE Max(MinBaseSize, ratio)
      s2 == IF Abs(ratio - st.lastLOD) > SizeStep
            THEN [s1 EXCEPT
                   !.lastLOD = ratio,
                   !.size = [n \in GraphNodes(d) |-> IF IsCluster(n) THEN s1.size[n] ELSE base * PlainFactor],
                   !.baseSize = [n \in GraphNodes(d) |-> IF IsCluster(n) THEN s1.baseSize[n] ELSE base * PlainFactor]]
            ELSE s1
  IN IF st.suspendLOD THEN st ELSE s2

\* clampCameraToGraph; the nested "updated" event of its setState falls in
\* the throttle window of onCamUpdate and is dropped
ClampCameraToGraph(st) ==
  LET mx == st.cam.ratio \div 2
      nx == clamp(st.cam.x, mx, 1000 - mx)
      ny == clamp(st.cam.y, mx, 1000 - mx)
  IN IF Abs(nx - st.cam.x) > 1 \/ Abs(ny - st.cam.y) > 1
     THEN [st EXCEPT !.cam = [x |-> nx, y |-> ny, ratio |-> st.cam.ratio]]
     ELSE st

\* onCamUpdate, the handler of the camera's "updated" event
OnCamUpdate(st) ==
  IF st.sinceCamUpdate < Ticks(CamThrottleMs) THEN st
  ELSE ClampCameraToGraph(UpdateLOD([st EXCEPT !.sinceCamUpdate = 0]))

\* camera.setState(c) followed by the "updated" event
CameraSet(st, c) == OnCamUpdate([st EXCEPT !.cam = c])

(***************************************************************************)
(* React effects, in declaration order                                     *)
(***************************************************************************)
\* effect [showAllEdges, confidence, showOnlyNew]: edge flags of the
\* non-focused view; onlyNewRef is showOnlyNewRef.current as this effect
\* reads it (the ref is written by a later effect)
EffShowAllEdges(st, onlyNewRef) ==
  LET d == st.dataset
  IN IF st.focusedNodeRef # NoNode THEN st
     ELSE [st EXCEPT
            !.edgeHidden = [id \in EdgeIds(d) |->
               ~(st.showAllEdges /\ ~(HideByNewEdge(EdgeOf(d, id), onlyNewRef)
                                      \/ HideByConf(EdgeOf(d, id), st.confidence)))],
            !.renderEdges = DrawEdges(st.showAllEdges, ShowEdges, st.cam.ratio),
            !.previewNode = NoNode]

\* effect [degreeThreshold], first one
EffDegreeThreshold(st) ==
  LET d == st.dataset
      s1 == [st EXCEPT
               !.hidden = [n \in GraphNodes(d) |->
                  HideByDeg(d, n, st.degreeThreshold) \/ HideByNew(d, n, st.showOnlyNew)],
               !.totals = CountTotalsDegreeEffect(d, st.degreeThreshold, st.showOnlyNew)]
  IN IF st.focusedNodeRef # NoNode /\ st.focusedInfo # NoFocusedInfo
     THEN [s1 EXCEPT !.focusedInfo =
             [FocusedCountsDegreeEffect(d, st.focusedNodeRef, st.degreeThreshold, st.showOnlyNew)
                EXCEPT !.id = st.focusedInfo.id]]
     ELSE s1

\* effect [confidence]: while focused, rebuild the neighbourhood
EffConfidence(st) ==
  LET d == st.dataset
      focused == st.focusedNodeRef
      vis == VisibleNodes(d, st.degreeThreshold, st.showOnlyNew)
      neighbors == {focused} \cup UNION {Endpoints(e) : e \in
                     {f \in DataEdges(d) : /\ Incident(f, focused)
                                           /\ Other(f, focused) \in vis
                                           /\ ~HideByNewEdge(f, st.showOnlyNew)
                                           /\ ~HideByConf(f, st.confidence)}}
  IN IF focused = NoNode THEN st
     ELSE [st EXCEPT
            !.hidden = [n \in GraphNodes(d) |-> IF IsCluster(n) THEN st.hidden[n]
                          ELSE (n \notin neighbors \/ HideByDeg(d, n, st.degreeThreshold)
                                \/ HideByNew(d, n, st.showOnlyNew))],
            !.edgeHidden = [id \in EdgeIds(d) |->
               LET e == EdgeOf(d, id)
               IN ~(e.source \in neighbors /\ e.target \in neighbors)
                  \/ HideByNewEdge(e, st.showOnlyNew) \/ HideByConf(e, st.confidence)]]

\* effect [showOnlyNew]
EffShowOnlyNew(st) ==
  LET d == st.dataset
      s1 == [st EXCEPT
               !.hidden = [n \in GraphNodes(d) |-> IF IsCluster(n) THEN st.hidden[n]
                   ELSE (HideByDeg(d, n, st.degreeThreshold) \/ HideByNew(d, n, st.showOnlyNew))],
               !.totals = CountTotals(d, st.degreeThreshold, st.showOnlyNew, st.confidence)]
  IN IF st.focusedNodeRef # NoNode /\ st.focusedInfo # NoFocusedInfo
     THEN [s1 EXCEPT !.focusedInfo =
             [FocusedCounts(d, st.focusedNodeRef, st.degreeThreshold, st.showOnlyNew, st.confidence)
                EXCEPT !.id = st.focusedInfo.id]]
     ELSE s1

\* effect [degreeThreshold], second one ("Apply degree filter")
EffDegreeFilter(st) ==
  [st EXCEPT !.hidden = [n \in GraphNodes(st.dataset) |->
                           Degree(st.dataset, n) < st.degreeThreshold]]

(***************************************************************************)
(* fetchGeneSummary                                                        *)
(***************************************************************************)
\* up to the first await: abort the lookup in flight, answer from the cache
AbortPreviousTooLate(st) ==
  IF st.geneFetch = NoNode THEN st
  ELSE [st EXCEPT !.geneFetch = NoNode, !.lookupAborted = TRUE, !.geneInfo = st.geneFetch,
                  !.geneCache = st.geneCache \cup {st.geneFetch}]

\* `if (geneAbortRef.current) geneAbortRef.current.abort()`: the fetch of the
\* lookup in flight rejects and, at the end of the same task, its catch block
\* swallows the rejection
AbortPrevious(st) ==
  IF st.geneFetch = NoNode THEN st
  ELSE [st EXCEPT !.geneFetch = NoNode, !.lookupAborted = TRUE]

FetchGeneSummary(st, query) ==
  LET s1 == AbortPrevious(st)
  IN IF query \in s1.geneCache
     THEN [s1 EXCEPT !.geneFetch = NoNode, !.geneInfo = query]
     ELSE [s1 EXCEPT !.geneFetch = query]

\* after the awaits: a hit is displayed and cached, a failure is swallowed
FetchGeneSummaryDone(st, ok) ==
  IF ok
  THEN [st EXCEPT !.geneFetch = NoNode, !.geneInfo = st.geneFetch,
                  !.geneCache = st.geneCache \cup {st.geneFetch}]
  ELSE [st EXCEPT !.geneFetch = NoNode]

(***************************************************************************)
(* Initial state: init has loaded the dataset with the default filter      *)
(* settings and the GPU renderer is running; nothing is hovered or focused *)
(***************************************************************************)
NoTrip == [stage |-> "none", cam |-> NoCam, hidden |-> <<>>, color |-> <<>>, size |-> <<>>]

\* the program state init leaves for dataset d
Fresh(d) ==
  [dataset |-> d, degreeThreshold |-> 0, confidence |-> MinProb(d),
   showOnlyNew |-> FALSE, showAllEdges |-> FALSE, totals |-> InitTotals(d),
   focusedInfo |-> NoFocusedInfo, geneInfo |-> NoNode, geneTimer |-> NoGeneTimer,
   geneFetch |-> NoNode, geneCache |-> {}, focusedNodeRef |-> NoNode,
   prevCamStateRef |-> NoCam, defocusTimer |-> 0 - 1,
   isAnimatingRef |-> FALSE, suspendLOD |-> FALSE,
   clusterModeRef |-> FALSE, lastLOD |-> InitCam.ratio,
   renderEdges |-> DrawEdges(FALSE, ShowEdges, InitCam.ratio),
   hidden |-> [n \in GraphNodes(d) |-> IsCluster(n)],
   label |-> [n \in GraphNodes(d) |-> FALSE],
   color |-> [n \in GraphNodes(d) |->
                IF ~IsCluster(n) /\ n \in NodesBlue(d) THEN "heat" ELSE "undef"],
   size |-> [n \in GraphNodes(d) |-> IF IsCluster(n) THEN 0 ELSE 1000 * PlainFactor],
   baseSize |-> [n \in GraphNodes(d) |-> IF IsCluster(n) THEN 0 ELSE 1000 * PlainFactor],
   edgeHidden |-> [id \in EdgeIds(d) |-> TRUE],
   cam |-> InitCam, anim |-> NoAnim, doneTimers |-> {},
   sinceSetHovered |-> Ticks(ThrottleMs), sincePreview |-> Ticks(ThrottleMs),
   sinceCamUpdate |-> Ticks(CamThrottleMs), pointerNode |-> NoNode,
   fallback |-> NoFallback, batch |-> NoBatch, previewNode |-> NoNode,
   lookupAborted |-> FALSE]

\* the dataset each view mode fetches
DatasetOf(mode) == IF mode = "locality" THEN "mixed" ELSE "scenario"
ViewModes == {"default", "locality"}
Sessions == 1..MaxSessions

\* the first run of the effect has finished init() with the Sigma renderer
FirstSessionRuns(d) ==
  /\ viewMode \in ViewModes /\ DatasetOf(viewMode) = d
  /\ mounted = TRUE
  /\ webgl = TRUE
  /\ session = 1
  /\ initPc = [k \in Sessions |-> IF k = 1 THEN "running" ELSE "none"]
  /\ disposed = {}
  /\ sigmaLive = {1}
  /\ canvasLive = {}
  /\ sigmaRef = 1

\* the component state, refs and graph attributes are those of st
ProgramIs(st, b) ==
  /\ dataset = st.dataset
  /\ degreeThreshold = st.degreeThreshold
  /\ confidence = st.confidence
  /\ showOnlyNew = st.showOnlyNew
  /\ showAllEdges = st.showAllEdges
  /\ totals = st.totals
  /\ focusedInfo = st.focusedInfo
  /\ geneInfo = st.geneInfo
  /\ geneTimer = st.geneTimer
  /\ geneFetch = st.geneFetch
  /\ geneCache = st.geneCache
  /\ focusedNodeRef = st.focusedNodeRef
  /\ prevCamStateRef = st.prevCamStateRef
  /\ defocusTimer = st.defocusTimer
  /\ isAnimatingRef = st.isAnimatingRef
  /\ suspendLOD = st.suspendLOD
  /\ clusterModeRef = st.clusterModeRef
  /\ lastLOD = st.lastLOD
  /\ renderEdges = st.renderEdges
  /\ hidden = st.hidden
  /\ label = st.label
  /\ color = st.color
  /\ size = st.size
  /\ baseSize = st.baseSize
  /\ edgeHidden = st.edgeHidden
  /\ cam = st.cam
  /\ anim = st.anim
  /\ doneTimers = st.doneTimers
  /\ sinceSetHovered = st.sinceSetHovered
  /\ sincePreview = st.sincePreview
  /\ sinceCamUpdate = st.sinceCamUpdate
  /\ pointerNode = st.pointerNode
  /\ fallback = st.fallback
  /\ batch = st.batch
  /\ previewNode = st.previewNode
  /\ camAtFocusEntry = NoCam
  /\ focusHopped = FALSE
  /\ roundTrip = NoTrip
  /\ defocusCancelled = FALSE
  /\ lookupAborted = st.lookupAborted
  /\ events = 0
  /\ budget = b

\* the program is in state st, no user event counted yet, b of them explored
Loaded(st, b) ==
  /\ FirstSessionRuns(st.dataset)
  /\ ProgramIs(st, b)

\* the end of a task: st is the program state it leaves, rt the history of
\* the focus/defocus trip, ev the number of user events it counts for
Assign(st, rt, ev) ==
  /\ dataset' = st.dataset
  /\ degreeThreshold' = st.degreeThreshold
  /\ confidence' = st.confidence
  /\ showOnlyNew' = st.showOnlyNew
  /\ showAllEdges' = st.showAllEdges
  /\ totals' = st.totals
  /\ focusedInfo' = st.focusedInfo
  /\ geneInfo' = st.geneInfo
  /\ geneTimer' = st.geneTimer
  /\ geneFetch' = st.geneFetch
  /\ geneCache' = st.geneCache
  /\ focusedNodeRef' = st.focusedNodeRef
  /\ prevCamStateRef' = st.prevCamStateRef
  /\ defocusTimer' = st.defocusTimer
  /\ isAnimatingRef' = st.isAnimatingRef
  /\ suspendLOD' = st.suspendLOD
  /\ clusterModeRef' = st.clusterModeRef
  /\ lastLOD' = st.lastLOD
  /\ renderEdges' = st.renderEdges
  /\ hidden' = st.hidden
  /\ label' = st.label
  /\ color' = st.color
  /\ size' = st.size
  /\ baseSize' = st.baseSize
  /\ edgeHidden' = st.edgeHidden
  /\ cam' = st.cam
  /\ anim' = st.anim
  /\ doneTimers' = st.doneTimers
  /\ sinceSetHovered' = st.sinceSetHovered
  /\ sincePreview' = st.sincePreview
  /\ sinceCamUpdate' = st.sinceCamUpdate
  /\ pointerNode' = st.pointerNode
  /\ fallback' = st.fallback
  /\ batch' = st.batch
  /\ previewNode' = st.previewNode
  /\ camAtFocusEntry' = IF focusedNodeRef = NoNode /\ st.focusedNodeRef # NoNode
                        THEN cam ELSE camAtFocusEntry
  /\ focusHopped' = IF focusedNodeRef = NoNode /\ st.focusedNodeRef # NoNode THEN FALSE
                    ELSE IF focusedNodeRef # NoNode /\ st.focusedNodeRef # NoNode
                    THEN (focusHopped \/ st.focusedNodeRef # focusedNodeRef)
                    ELSE focusHopped
  /\ roundTrip' = rt
  /\ defocusCancelled' = (defocusCancelled
                           \/ (defocusTimer >= 0 /\ st.defocusTimer < 0
                               /\ st.focusedNodeRef # NoNode))
  /\ lookupAborted' = st.lookupAborted
  /\ events' = events + ev
  /\ budget' = budget

\* the end of a task of the running session: the effect's runs stay as they are
Commit(st, rt, ev) ==
  /\ Assign(st, rt, ev)
  /\ UNCHANGED lifeVars

\* nothing hovered, focused, animating or pending
AtRest ==
  /\ focusedNodeRef = NoNode /\ pointerNode = NoNode /\ previewNode = NoNode
  /\ ~anim.active /\ doneTimers = {} /\ defocusTimer < 0

\* history of a trip "focus from rest, then defocus, nothing else"
TripStart(st) ==
  IF AtRest /\ st.focusedNodeRef # NoNode
  THEN [stage |-> "focused", cam |-> cam, hidden |-> hidden, color |-> color, size |-> size]
  ELSE NoTrip

(***************************************************************************)
(* User events                                                             *)
(***************************************************************************)
\* s.on("clickNode")
ClickNode(n) ==
  /\ events < budget
  /\ n \in GraphNodes(dataset) /\ ~hidden[n]
  /\ LET s1 == SetHovered([Cur EXCEPT !.defocusTimer = 0 - 1], n)
         s2 == ScheduleGene(s1, n, GeneClickMs)
     IN Commit(s2, TripStart(s2), 1)

\* s.on("clickStage"), click on the label badge of a visible node
ClickLabel(n) ==
  /\ events < budget
  /\ n \in GraphNodes(dataset) /\ ~hidden[n] /\ label[n]
  /\ Commit(SetHovered(Cur, n), NoTrip, 1)

\* s.on("clickStage"), click on empty space
ClickStage ==
  /\ events < budget
  /\ LET d  == dataset
         s1 == [Cur EXCEPT
                  !.label = [n \in GraphNodes(d) |-> FALSE],
                  !.edgeHidden = [id \in EdgeIds(d) |->
                     ~showAllEdges \/ HideByNewEdge(EdgeOf(d, id), showOnlyNew)
                     \/ HideByConf(EdgeOf(d, id), confidence)],
                  !.previewNode = NoNode]
     IN Commit(SetHovered(s1, NoNode),
               IF roundTrip.stage = "focused" THEN roundTrip ELSE NoTrip, 1)

\* focusById: a search result is chosen
FocusById(n) ==
  /\ events < budget
  /\ n \in DataNodes(dataset)
  /\ LET s1 == SetHovered(Cur, n) IN Commit(s1, TripStart(s1), 1)

\* s.on("enterNode")
EnterNode(n) ==
  /\ events < budget
  /\ n \in GraphNodes(dataset) /\ ~hidden[n] /\ pointerNode = NoNode
  /\ LET s1 == PreviewHover([Cur EXCEPT !.pointerNode = n], n)
         s2 == IF s1.focusedNodeRef = NoNode THEN ScheduleGene(s1, n, GeneHoverMs) ELSE s1
     IN Commit(s2, NoTrip, 1)

\* s.on("leaveNode")
LeaveNode ==
  /\ events < budget
  /\ pointerNode # NoNode
  /\ LET s1 == PreviewHover([Cur EXCEPT !.pointerNode = NoNode], NoNode)
         s2 == IF s1.focusedNodeRef = NoNode THEN [s1 EXCEPT !.geneInfo = NoNode] ELSE s1
     IN Commit(s2, NoTrip, 1)

\* the "Degree >=" slider: onChange, then the two [degreeThreshold] effects
DegreeChange(v) ==
  /\ events < budget
  /\ v \in 0..MaxThr /\ v # degreeThreshold
  /\ LET d  == dataset
         h1 == [Cur EXCEPT !.totals = CountTotals(d, degreeThreshold, showOnlyNew, confidence)]
         h2 == IF focusedNodeRef # NoNode
               THEN [h1 EXCEPT !.focusedInfo =
                       FocusedCounts(d, focusedNodeRef, degreeThreshold, showOnlyNew, confidence)]
               ELSE h1
         r  == [h2 EXCEPT !.degreeThreshold = v]
     IN Commit(EffDegreeFilter(EffDegreeThreshold(r)), NoTrip, 1)

ConfInputs == {0, 50}

\* the "Confidence level" slider: onChange (totals from the closure's old
\* confidence), then the [.., confidence, ..] effects
ConfChange(v) ==
  /\ events < budget
  /\ v \in ConfInputs /\ v # confidence
  /\ LET d  == dataset
         h1 == [Cur EXCEPT !.totals = CountTotals(d, degreeThreshold, showOnlyNew, confidence)]
         h2 == IF focusedNodeRef # NoNode
               THEN [h1 EXCEPT !.focusedInfo =
                       FocusedCounts(d, focusedNodeRef, degreeThreshold, showOnlyNew, confidence)]
               ELSE h1
         r  == [h2 EXCEPT !.confidence = v]
     IN Commit(EffConfidence(EffShowAllEdges(r, showOnlyNew)), NoTrip, 1)

\* the "Show only new" checkbox
ToggleOnlyNew ==
  /\ events < budget
  /\ LET r == [Cur EXCEPT !.showOnlyNew = ~showOnlyNew]
     IN Commit(EffShowOnlyNew(EffShowAllEdges(r, showOnlyNew)), NoTrip, 1)

\* the "Show all edges" checkbox, disabled while a node is focused
ToggleShowAllEdges ==
  /\ events < budget
  /\ focusedNodeRef = NoNode
  /\ LET r == [Cur EXCEPT !.showAllEdges = ~showAllEdges]
     IN Commit(EffShowAllEdges(r, showOnlyNew), NoTrip, 1)

\* camera states the user can drag or zoom to
CamMoves == { [x |-> 500, y |-> 500, ratio |-> 1000],
              [x |-> 500, y |-> 500, ratio |-> 1300],
              [x |-> 200, y |-> 500, ratio |-> 600] }

\* camera states on both sides of the mode threshold and of the edge cut-off
LodMoves == { [x |-> 500, y |-> 500, ratio |-> 1000],
              [x |-> 500, y |-> 500, ratio |-> 1100],
              [x |-> 500, y |-> 500, ratio |-> 1300],
              [x |-> 500, y |-> 500, ratio |-> 1400],
              [x |-> 500, y |-> 500, ratio |-> 1500],
              [x |-> 500, y |-> 500, ratio |-> 1600] }

\* the user drags or zooms: camera.setState and the "updated" event
CameraMove(c) ==
  /\ events < budget
  /\ c \in CamMoves \cup LodMoves /\ c # cam /\ ~anim.active
  /\ Commit(CameraSet(Cur, c), NoTrip, 1)

(***************************************************************************)
(* Timers, animation frames, fetch completions, passage of time            *)
(***************************************************************************)
\* the debounce timer of the annotation lookup fires
GeneTimerFires ==
  /\ geneTimer.node # NoNode /\ geneTimer.left = 0
  /\ Commit(FetchGeneSummary([Cur EXCEPT !.geneTimer = NoGeneTimer], geneTimer.node), roundTrip, 0)

\* the lookup in flight completes
GeneFetchDone(ok) ==
  /\ geneFetch # NoNode
  /\ Commit(FetchGeneSummaryDone(Cur, ok), roundTrip, 0)

\* the 180 ms defocus timer fires
DefocusTimerFires ==
  /\ defocusTimer = 0
  /\ Commit(DefocusCallback(Cur),
            IF roundTrip.stage = "focused" THEN [roundTrip EXCEPT !.stage = "defocused"] ELSE roundTrip, 0)

\* a 520 ms animation-done timer fires
AnimDoneTimer(t) ==
  /\ t \in doneTimers /\ t.left = 0
  /\ Commit([Cur EXCEPT !.isAnimatingRef = FALSE,
                        !.suspendLOD = IF t.kind = "focus" THEN FALSE ELSE suspendLOD,
                        !.doneTimers = doneTimers \ {t}], roundTrip, 0)

\* Sigma renders a frame of the camera animation
AnimFrame ==
  /\ anim.active /\ anim.due = 0
  /\ IF anim.phase = 0
     THEN Commit(CameraSet([Cur EXCEPT !.anim = [anim EXCEPT !.phase = 1,
                                                     !.due = Ticks(AnimMs) - Ticks(AnimMs) \div 2]],
                           MidFrame(anim.from, anim.to)), roundTrip, 0)
     ELSE Commit(CameraSet([Cur EXCEPT !.anim = NoAnim], anim.to), roundTrip, 0)

\* TickMs milliseconds pass; every callback that is due has run
Tick ==
  /\ geneTimer.node = NoNode \/ geneTimer.left > 0
  /\ defocusTimer # 0
  /\ \A t \in doneTimers : t.left > 0
  /\ anim.active => anim.due > 0
  /\ Commit([Cur EXCEPT
               !.geneTimer = IF geneTimer.node = NoNode THEN geneTimer
                             ELSE [geneTimer EXCEPT !.left = geneTimer.left - 1],
               !.defocusTimer = IF defocusTimer > 0 THEN defocusTimer - 1 ELSE defocusTimer,
               !.doneTimers = {[t EXCEPT !.left = t.left - 1] : t \in doneTimers},
               !.anim = IF anim.active THEN [anim EXCEPT !.due = anim.due - 1] ELSE anim,
               !.sinceSetHovered = Min(Ticks(ThrottleMs), sinceSetHovered + 1),
               !.sincePreview = Min(Ticks(ThrottleMs), sincePreview + 1),
               !.sinceCamUpdate = Min(Ticks(CamThrottleMs), sinceCamUpdate + 1)],
            roundTrip, 0)

Next ==
  \/ \E n \in AllNodes : ClickNode(n)
  \/ \E n \in AllNodes : ClickLabel(n)
  \/ ClickStage
  \/ \E n \in AllNodes : FocusById(n)
  \/ \E n \in AllNodes : EnterNode(n)
  \/ LeaveNode
  \/ \E v \in 0..MaxThr : DegreeChange(v)
  \/ \E v \in ConfInputs : ConfChange(v)
  \/ ToggleOnlyNew
  \/ ToggleShowAllEdges
  \/ \E c \in CamMoves : CameraMove(c)
  \/ GeneTimerFires
  \/ \E ok \in BOOLEAN : GeneFetchDone(ok)
  \/ DefocusTimerFires
  \/ \E t \in doneTimers : AnimDoneTimer(t)
  \/ AnimFrame
  \/ Tick

Init == \E d \in Datasets : Loaded(Fresh(d), MaxEvents)

Spec == Init /\ [][Next]_vars

(***************************************************************************)
(* The focus state machine alone, on the dataset "scenario": clicks,       *)
(* search, camera moves and the callbacks they schedule                    *)
(***************************************************************************)
InitFocus == Loaded(Fresh("scenario"), MaxFocusEvents)

NextFocus ==
  \/ \E n \in AllNodes : ClickNode(n)
  \/ \E n \in AllNodes : ClickLabel(n)
  \/ ClickStage
  \/ \E n \in AllNodes : FocusById(n)
  \/ \E c \in CamMoves : CameraMove(c)
  \/ GeneTimerFires
  \/ \E ok \in BOOLEAN : GeneFetchDone(ok)
  \/ DefocusTimerFires
  \/ \E t \in doneTimers : AnimDoneTimer(t)
  \/ AnimFrame
  \/ Tick

SpecFocus == InitFocus /\ [][NextFocus]_vars

(***************************************************************************)
(* C1: race safety.  A click on node b while another node is focused and   *)
(* that node's camera animation is still in flight leaves the system in    *)
(* Focused(b): the focus target is b, the ordinary nodes shown and         *)
(* labelled are exactly b's filtered neighbourhood, the camera animates to *)
(* b's clamped frame and the pending annotation lookup is b's.             *)
(***************************************************************************)
C1_SecondFocusWins ==
  [][\A b \in AllNodes :
       (focusedNodeRef # NoNode /\ focusedNodeRef # b
          /\ anim.active /\ isAnimatingRef /\ defocusTimer < 0
          /\ events' # events /\ ClickNode(b))
       => /\ focusedNodeRef' = b
          /\ \A n \in DataNodes(dataset) :
               /\ hidden'[n] = (n \notin Neighbors(Cur, b) \/ HideByNew(dataset, n, showOnlyNew))
               /\ label'[n] = (n \in Neighbors(Cur, b))
          /\ anim'.active /\ anim'.to = FocusTarget(dataset, b, cam)
          /\ geneTimer'.node = b]_vars

(***************************************************************************)
(* C2: generation token.  The animation-done timer of a superseded         *)
(* animation is a no-op: when it fires while a later-started animation is  *)
(* in flight, it neither clears the animating flag nor re-enables the      *)
(* level-of-detail updates.                                                *)
(***************************************************************************)
C2_StaleDoneTimerIsNoOp ==
  [][\A t \in doneTimers :
       (t.superseded /\ anim.active /\ AnimDoneTimer(t))
       => (isAnimatingRef' = isAnimatingRef /\ suspendLOD' = suspendLOD)]_vars

(***************************************************************************)
(* C3: a stale annotation lookup is discarded.  When the debounce timer or *)
(* the fetch of a lookup completes for a node that is neither the hovered  *)
(* nor the focused node, the displayed annotation does not change.         *)
(***************************************************************************)
C3_StaleLookupDiscarded ==
  [][(\/ (geneTimer.node \notin {focusedNodeRef, pointerNode} /\ GeneTimerFires)
      \/ (geneFetch \notin {focusedNodeRef, pointerNode}
            /\ \E ok \in BOOLEAN : GeneFetchDone(ok)))
     => geneInfo' = geneInfo]_vars

(***************************************************************************)
(* C4: focus/defocus round trip.  When a node was focused from an Idle     *)
(* state at rest and then defocused, with no other user event, and the     *)
(* return animation and its timers have run, the camera equals the         *)
(* pre-focus camera and every ordinary node has its pre-focus hidden,      *)
(* color and size.                                                         *)
(***************************************************************************)
RoundTripDone ==
  /\ roundTrip.stage = "defocused" /\ focusedNodeRef = NoNode
  /\ ~anim.active /\ doneTimers = {} /\ defocusTimer < 0

C4_RoundTripRestores ==
  RoundTripDone =>
    /\ cam = roundTrip.cam
    /\ \A n \in DataNodes(dataset) :
         /\ hidden[n] = roundTrip.hidden[n]
         /\ color[n] = roundTrip.color[n]
         /\ size[n] = roundTrip.size[n]

(***************************************************************************)
(* C5: the pre-focus camera snapshot is written only on a transition from  *)
(* not-focused into Focused, where it takes the current camera state; a    *)
(* click on a node while Focused keeps a node focused and leaves the       *)
(* snapshot alone; and the defocus callback animates the camera to the     *)
(* camera state captured when the focus episode began.                     *)
(***************************************************************************)
C5_SnapshotOnlyOnEntry ==
  [][/\ (prevCamStateRef' # prevCamStateRef
          => (focusedNodeRef = NoNode /\ focusedNodeRef' # NoNode /\ prevCamStateRef' = cam))
     /\ \A n \in AllNodes :
          (focusedNodeRef # NoNode /\ events' # events /\ geneTimer'.node = n /\ ClickNode(n))
          => (focusedNodeRef' # NoNode /\ prevCamStateRef' = prevCamStateRef)
     /\ (focusedNodeRef' # NoNode => prevCamStateRef' = camAtFocusEntry')
     /\ ((defocusTimer = 0 /\ DefocusTimerFires)
          => (anim'.active /\ anim'.to = camAtFocusEntry /\ focusedNodeRef' = NoNode))]_vars

\* a chain focus, focus of another node, defocus: the return animation runs
\* towards the camera state of the first focus
C5_Witness ==
  /\ focusHopped /\ focusedNodeRef = NoNode
  /\ anim.active /\ anim.to = camAtFocusEntry /\ prevCamStateRef = camAtFocusEntry
  /\ cam # camAtFocusEntry

(***************************************************************************)
(* C6: while a node F is focused (and no defocus is pending), every        *)
(* ordinary node other than F and F's filtered neighbours is hidden.       *)
(***************************************************************************)
C6_FocusedHidesNonNeighbours ==
  (focusedNodeRef # NoNode /\ defocusTimer < 0)
  => \A n \in DataNodes(dataset) \ Neighbors(Cur, focusedNodeRef) : hidden[n]

(***************************************************************************)
(* C7: after every filter-parameter change the displayed totals equal the  *)
(* counts computed with the new values of the three parameters; on the     *)
(* dataset "scenario", setting the confidence floor to 0.5 with only-new   *)
(* off and no degree floor gives 2 visible edges, 1 of them novel.         *)
(***************************************************************************)
C7_TotalsAreCurrent ==
  [][/\ (events' # events
          /\ ((\E v \in 0..MaxThr : DegreeChange(v)) \/ (\E v \in ConfInputs : ConfChange(v))
               \/ ToggleOnlyNew))
        => totals' = CountTotals(dataset, degreeThreshold', showOnlyNew', confidence')
     /\ (dataset = "scenario" /\ ~showOnlyNew /\ degreeThreshold = 0 /\ events' # events
          /\ ConfChange(50))
        => (totals'.edges = 2 /\ totals'.blueEdges = 1)]_vars

(***************************************************************************)
(* C8: after a degree-floor change to t every ordinary node of degree      *)
(* below t is hidden, and the hidden flag of a cluster meta-node is the    *)
(* one it had before the change.                                           *)
(***************************************************************************)
C8_DegreeFloorExemptsClusters ==
  [][\A v \in 0..MaxThr :
       (degreeThreshold' = v /\ degreeThreshold # v /\ DegreeChange(v))
       => /\ \A n \in DataNodes(dataset) : Degree(dataset, n) < v => hidden'[n]
          /\ \A c \in ClusterNodes : hidden'[c] = hidden[c]]_vars

(***************************************************************************)
(* C9: the confidence floor and edges without a score.                     *)
(***************************************************************************)
NoScoreEdges(d) == {e \in DataEdges(d) : e.afmprob = NoScore}

\* the totals count every edge without a score whose endpoints are visible
\* and that passes only-new
TotalsKeepNoScore ==
  totals.edges >= Cardinality({e \in NoScoreEdges(dataset) :
                      /\ e.source \in VisibleNodes(dataset, degreeThreshold, showOnlyNew)
                      /\ e.target \in VisibleNodes(dataset, degreeThreshold, showOnlyNew)
                      /\ ~HideByNewEdge(e, showOnlyNew)})

\* wherever the floor is applied to the edges, an edge without a score that
\* the other rules of the view accept comes out visible
FloorSparesNoScore ==
  /\ \A v \in ConfInputs : (confidence' = v /\ confidence # v /\ ConfChange(v)) =>
       \A e \in NoScoreEdges(dataset) :
         /\ (focusedNodeRef = NoNode /\ showAllEdges /\ ~HideByNewEdge(e, showOnlyNew))
              => ~edgeHidden'[e.id]
         /\ (focusedNodeRef # NoNode /\ Incident(e, focusedNodeRef)
               /\ ~HideByNewEdge(e, showOnlyNew)
               /\ Other(e, focusedNodeRef) \in VisibleNodes(dataset, degreeThreshold, showOnlyNew))
              => ~edgeHidden'[e.id]
  /\ \A b \in AllNodes :
       (sinceSetHovered >= Ticks(ThrottleMs) /\ ~showAllEdges
          /\ events' # events /\ focusedNodeRef' = b
          /\ (ClickNode(b) \/ FocusById(b) \/ ClickLabel(b)))
       => \A e \in NoScoreEdges(dataset) :
            (Incident(e, b) /\ ~HideByNewEdge(e, showOnlyNew)) => ~edgeHidden'[e.id]
  /\ (focusedNodeRef = NoNode /\ showAllEdges' /\ events' # events
       /\ (ToggleShowAllEdges \/ ClickStage))
       => \A e \in NoScoreEdges(dataset) :
            ~HideByNewEdge(e, showOnlyNew) => ~edgeHidden'[e.id]
  /\ \A v \in ConfInputs : (confidence' = v /\ confidence # v /\ ConfChange(v)) =>
       \A e \in DataEdges(dataset) : HideByConf(e, v) => edgeHidden'[e.id]

(***************************************************************************)
(* C9 as stated: in every reachable state every edge whose score is        *)
(* present and below the floor is hidden, the totals leave out no edge     *)
(* without a score because of the floor, and no application of the floor   *)
(* hides an edge without a score.                                          *)
(***************************************************************************)
C9_FloorHidesExactlyScoredBelow ==
  /\ [](\A e \in DataEdges(dataset) : HideByConf(e, confidence) => edgeHidden[e.id])
  /\ []TotalsKeepNoScore
  /\ [][FloorSparesNoScore]_vars

(***************************************************************************)
(* C9, amended: the same, except that the hover preview shows the edges    *)
(* between the hovered node and its adjacent nodes whatever their score:   *)
(* outside the hover preview every edge whose score is present and below   *)
(* the floor is hidden.                                                    *)
(***************************************************************************)
C9_FloorOutsidePreview ==
  /\ [](previewNode = NoNode
         => \A e \in DataEdges(dataset) : HideByConf(e, confidence) => edgeHidden[e.id])
  /\ []TotalsKeepNoScore
  /\ [][FloorSparesNoScore]_vars

\* a focused node with a raised floor: an incident edge without a score is
\* shown, an incident edge scored below the floor is hidden
C9_Witness ==
  /\ focusedNodeRef # NoNode /\ confidence > MinProb(dataset)
  /\ \E e \in NoScoreEdges(dataset) : Incident(e, focusedNodeRef) /\ ~edgeHidden[e.id]
  /\ \E f \in DataEdges(dataset) :
       Incident(f, focusedNodeRef) /\ HideByConf(f, confidence) /\ edgeHidden[f.id]
  /\ totals.edges >= Cardinality(NoScoreEdges(dataset))

(***************************************************************************)
(* C10: while only-new is on and no hover preview is shown, no ordinary    *)
(* node without the novelty flag is visible and no edge whose provenance   *)
(* tag is not the novelty tag is visible.                                  *)
(***************************************************************************)
C10_OnlyNewHidesNonNovel ==
  (showOnlyNew /\ previewNode = NoNode)
  => /\ \A n \in DataNodes(dataset) \ NodesBlue(dataset) : hidden[n]
     /\ \A e \in DataEdges(dataset) : ~IsNone(e) => edgeHidden[e.id]

(***************************************************************************)
(* C11: an edge that is not hidden has both endpoints not hidden, and the  *)
(* visible-edge total counts no more edges than there are edges whose two  *)
(* endpoints are counted as visible nodes.                                 *)
(***************************************************************************)
C11_VisibleEdgeHasVisibleEnds ==
  /\ \A e \in DataEdges(dataset) :
       ~edgeHidden[e.id] => (~hidden[e.source] /\ ~hidden[e.target])
  /\ totals.edges <= Cardinality({e \in DataEdges(dataset) :
                         /\ e.source \in VisibleNodes(dataset, degreeThreshold, showOnlyNew)
                         /\ e.target \in VisibleNodes(dataset, degreeThreshold, showOnlyNew)})

(***************************************************************************)
(* C12: while a node F is focused, after every filter-parameter change the *)
(* displayed neighbour count and novel-neighbour count of F equal the      *)
(* counts of F's incident edges under the new values of the parameters.    *)
(***************************************************************************)
C12_FocusedCountsAreCurrent ==
  [][(focusedNodeRef # NoNode /\ defocusTimer < 0 /\ events' # events
       /\ ((\E v \in 0..MaxThr : DegreeChange(v)) \/ (\E v \in ConfInputs : ConfChange(v))
            \/ ToggleOnlyNew))
     => LET now == FocusedCounts(dataset, focusedNodeRef, degreeThreshold',
                                 showOnlyNew', confidence')
        IN focusedInfo'.degree = now.degree /\ focusedInfo'.blue = now.blue]_vars

(***************************************************************************)
(* The filter controls alone, on both datasets: the two sliders and the    *)
(* two checkboxes, nothing hovered or focused                              *)
(***************************************************************************)
InitFilter == \E d \in Datasets : Loaded(Fresh(d), MaxFilterEvents)

NextFilter ==
  \/ \E v \in 0..MaxThr : DegreeChange(v)
  \/ \E v \in ConfInputs : ConfChange(v)
  \/ ToggleOnlyNew
  \/ ToggleShowAllEdges

SpecFilter == InitFilter /\ [][NextFilter]_vars

(***************************************************************************)
(* C13: filter monotonicity.  A step that raises the degree floor does not *)
(* increase the displayed visible-node count, and a step that raises the   *)
(* confidence floor does not increase the displayed visible-edge count.    *)
(***************************************************************************)
C13_FilterMonotone ==
  [][/\ \A v \in 0..MaxThr :
          (v > degreeThreshold /\ degreeThreshold' = v /\ DegreeChange(v))
          => totals'.nodes <= totals.nodes
     /\ \A v \in ConfInputs :
          (v > confidence /\ confidence' = v /\ ConfChange(v))
          => totals'.edges <= totals.edges]_vars

(***************************************************************************)
(* The runs of the [viewMode] effect: init() and the effect's cleanup      *)
(***************************************************************************)
\* what init() builds once the dataset d has arrived: totals, the confidence
\* floor when it is still 0, and a new graph; the component's other state and
\* its refs are those of st
Rebuilt(st, d) ==
  LET f == Fresh(d)
  IN [st EXCEPT !.dataset = d,
                !.totals = InitTotals(d),
                !.confidence = IF st.confidence = 0 THEN MinProb(d) ELSE st.confidence,
                !.hidden = [n \in GraphNodes(d) |->
                              IF IsCluster(n) THEN TRUE
                              ELSE HideByDeg(d, n, st.degreeThreshold)
                                   \/ HideByNew(d, n, st.showOnlyNew)],
                !.label = f.label, !.color = f.color, !.size = f.size,
                !.baseSize = f.baseSize, !.edgeHidden = f.edgeHidden,
                !.pointerNode = NoNode, !.previewNode = NoNode]

\* the effect's cleanup: it sets the run's flag, disconnects the observer of
\* the Sigma instance in sigmaRef, kills that instance and clears sigmaRef;
\* it touches no timer, no lookup and no canvas-fallback listener
Cleanup ==
  /\ disposed' = disposed \cup {session}
  /\ sigmaLive' = sigmaLive \ {sigmaRef}
  /\ sigmaRef' = 0
  /\ canvasLive' = canvasLive
  /\ Assign(IF sigmaRef # 0 THEN [Cur EXCEPT !.anim = NoAnim] ELSE Cur, NoTrip, 0)

\* what the dataset fetch of init() can come to: the parsed dataset, a
\* rejected fetch, a non-OK response (res.ok is never tested: its body, an
\* error page, goes to res.json()), a body that is not JSON
FetchOutcomes == {"data", "rejected", "notOk", "unparsable"}

\* what the GPU path of init() can come to: it runs to its end, the Sigma
\* constructor throws, or a statement after the constructor throws
GpuOutcomes == {"runs", "constructorThrows", "laterThrows"}

\* init() of run k passes the awaits up to the dataset's arrival (l.643-650).
\* The fetch and res.json() stand outside every try block and init() is
\* called without a catch: when either rejects, the promise of init() is
\* rejected with no handler.  With the dataset and a negative WebGL probe
\* startCanvasFallback runs.
InitFetched(k, res) ==
  /\ k \in Sessions /\ initPc[k] = "fetching" /\ res \in FetchOutcomes
  /\ IF res # "data"
     THEN /\ initPc' = [initPc EXCEPT ![k] = "rejected"]
          /\ Assign(Cur, roundTrip, 0)
          /\ UNCHANGED <<canvasLive>>
     ELSE IF k \in disposed
     THEN /\ initPc' = [initPc EXCEPT ![k] = "stopped"]
          /\ Assign(Cur, roundTrip, 0)
          /\ UNCHANGED <<canvasLive>>
     ELSE IF webgl
     THEN /\ initPc' = [initPc EXCEPT ![k] = "importing"]
          /\ Assign(Rebuilt(Cur, DatasetOf(viewMode)), NoTrip, 0)
          /\ UNCHANGED <<canvasLive>>
     ELSE /\ initPc' = [initPc EXCEPT ![k] = "running"]
          /\ Assign([Rebuilt(Cur, DatasetOf(viewMode)) EXCEPT
                       !.fallback = StartedFallback(DatasetOf(viewMode), "probe")], NoTrip, 0)
          /\ canvasLive' = canvasLive \cup {k}
  /\ UNCHANGED <<viewMode, mounted, webgl, session, disposed, sigmaLive, sigmaRef>>

\* init() of run k resumes after `await import("sigma")` (l.779): with the
\* container in place it constructs Sigma and stores it in sigmaRef, whatever
\* the run's flag says, or an exception takes it to the catch block, which
\* starts the canvas backend (a Sigma instance constructed before the
\* exception is neither stored nor killed); without the container both the
\* GPU and the fallback path throw
InitImported(k, gpu) ==
  /\ k \in Sessions /\ initPc[k] = "importing" /\ gpu \in GpuOutcomes
  /\ IF mounted /\ gpu = "runs"
     THEN /\ initPc' = [initPc EXCEPT ![k] = "running"]
          /\ sigmaLive' = sigmaLive \cup {k}
          /\ sigmaRef' = k
          /\ Assign([Cur EXCEPT !.cam = InitCam, !.anim = NoAnim,
                                !.sinceSetHovered = Ticks(ThrottleMs),
                                !.sincePreview = Ticks(ThrottleMs),
                                !.sinceCamUpdate = Ticks(CamThrottleMs)], NoTrip, 0)
          /\ UNCHANGED <<canvasLive>>
     ELSE IF mounted
     THEN /\ initPc' = [initPc EXCEPT ![k] = "running"]
          /\ sigmaLive' = IF gpu = "laterThrows" THEN sigmaLive \cup {k} ELSE sigmaLive
          /\ sigmaRef' = sigmaRef
          /\ Assign([Cur EXCEPT !.fallback = StartedFallback(dataset, "exception")], NoTrip, 0)
          /\ canvasLive' = canvasLive \cup {k}
     ELSE /\ initPc' = [initPc EXCEPT ![k] = "stopped"]
          /\ Assign(Cur, roundTrip, 0)
          /\ UNCHANGED <<sigmaLive, sigmaRef, canvasLive>>
  /\ UNCHANGED <<viewMode, mounted, webgl, session, disposed>>

\* viewMode changes: the cleanup of the current run, then the effect again
SwitchViewMode ==
  /\ mounted /\ session < MaxSessions
  /\ viewMode' = IF viewMode = "default" THEN "locality" ELSE "default"
  /\ Cleanup
  /\ session' = session + 1
  /\ initPc' = [initPc EXCEPT ![session + 1] = "fetching"]
  /\ UNCHANGED <<mounted, webgl>>

\* the component unmounts: containerRef is cleared and the cleanup runs
Unmount ==
  /\ mounted
  /\ mounted' = FALSE
  /\ Cleanup
  /\ UNCHANGED <<viewMode, webgl, session, initPc>>

\* the Sigma instance of the first run is the only renderer and is in sigmaRef
FirstRendererOnly == mounted /\ session = 1 /\ sigmaRef = 1 /\ sigmaLive = {1}

InitLife ==
  /\ viewMode \in ViewModes
  /\ mounted = TRUE
  /\ webgl \in BOOLEAN
  /\ session = 1
  /\ initPc = [k \in Sessions |-> IF k = 1 THEN "fetching" ELSE "none"]
  /\ disposed = {}
  /\ sigmaLive = {}
  /\ canvasLive = {}
  /\ sigmaRef = 0
  /\ ProgramIs(Fresh(DatasetOf(viewMode)), MaxLifeEvents)

NextLife ==
  \/ \E k \in Sessions, res \in FetchOutcomes : InitFetched(k, res)
  \/ \E k \in Sessions, gpu \in GpuOutcomes : InitImported(k, gpu)
  \/ SwitchViewMode
  \/ Unmount
  \/ FirstRendererOnly /\ \E n \in AllNodes : ClickNode(n)
  \/ FirstRendererOnly /\ ClickStage
  \/ GeneTimerFires
  \/ \E ok \in BOOLEAN : GeneFetchDone(ok)
  \/ FirstRendererOnly /\ DefocusTimerFires
  \/ \E t \in doneTimers : AnimDoneTimer(t)
  \/ FirstRendererOnly /\ AnimFrame
  \/ Tick

SpecLife == InitLife /\ [][NextLife]_vars

C15_TeardownReleasesAll ==
  [][disposed' # disposed
     => /\ ~anim'.active
        /\ defocusTimer' < 0
        /\ geneTimer'.node = NoNode
        /\ doneTimers' = {}
        /\ geneFetch' = NoNode
        /\ disposed' \cap (sigmaLive' \cup canvasLive') = {}]_vars

\* C16: with nothing hovered or focused the LOD mode partitions the node
\* classes: in detail mode every cluster node is hidden, in cluster mode
\* every ordinary node is hidden and every cluster node is visible; no
\* filter change breaks this.
C16_LODPartitionsClasses ==
  (focusedNodeRef = NoNode /\ pointerNode = NoNode /\ previewNode = NoNode)
  => \A n \in GraphNodes(dataset) :
       IF clusterModeRef THEN hidden[n] = ~IsCluster(n)
       ELSE IsCluster(n) => hidden[n]

\* C17: a click on the node that is already focused changes nothing: focus
\* target, camera state and animation, every hidden flag of nodes and edges,
\* labels, sizes, the saved camera snapshot and the node whose annotation
\* lookup is scheduled or in flight all stay as they were.
C17_RefocusIsNoOp ==
  [][\A n \in AllNodes :
       (focusedNodeRef = n /\ events' # events /\ ClickNode(n))
       => /\ focusedNodeRef' = n
          /\ cam' = cam /\ anim' = anim
          /\ hidden' = hidden /\ edgeHidden' = edgeHidden
          /\ label' = label /\ size' = size
          /\ prevCamStateRef' = prevCamStateRef
          /\ geneTimer'.node = geneTimer.node /\ geneFetch' = geneFetch]_vars

\* focus by a click on a node and defocus by a click on empty space, with
\* everything these two handlers schedule
InitDefocus == Loaded(Fresh("scenario"), MaxDefocusEvents)
NextDefocus ==
  \/ \E n \in AllNodes : ClickNode(n)
  \/ ClickStage
  \/ GeneTimerFires
  \/ \E ok \in BOOLEAN : GeneFetchDone(ok)
  \/ DefocusTimerFires
  \/ \E t \in doneTimers : AnimDoneTimer(t)
  \/ AnimFrame
  \/ Tick
SpecDefocus == InitDefocus /\ [][NextDefocus]_vars

\* C18: a click on empty space while a node is focused leaves the focus
\* target in place; the focus target is dropped only by the defocus timer,
\* once its delay has elapsed; a click on a node while the defocus is pending
\* clears the timer and the system is still focused afterwards.
C18_DefocusIsDeferred ==
  [][/\ ~(focusedNodeRef # NoNode /\ focusedNodeRef' # focusedNodeRef
          /\ events' # events /\ ClickStage)
     /\ (focusedNodeRef # NoNode /\ focusedNodeRef' = NoNode)
        => (defocusTimer = 0 /\ events' = events /\ DefocusTimerFires)
     /\ \A n \in AllNodes :
          ~(defocusTimer >= 0 /\ (defocusTimer' >= 0 \/ focusedNodeRef' = NoNode)
            /\ events' # events /\ ClickNode(n))]_vars

\* a click on a node has cleared a pending defocus and the system is focused
C18_Witness ==
  defocusCancelled /\ focusedNodeRef # NoNode /\ defocusTimer < 0

\* C19: with no node focused, pointer-enter on a node shows exactly that
\* node's label and the edges among the node and its adjacent nodes,
\* unfiltered, and pointer-leave shows no label and no edge; both leave the
\* camera, every node's hidden flag and the focus target unchanged.  With a
\* node focused, pointer-enter and pointer-leave change neither labels, edge
\* flags, the focus target nor the displayed annotation.
C19_HoverOnlyPreviews ==
  [][(events' # events /\ pointerNode' # pointerNode
       /\ ((\E n \in AllNodes : EnterNode(n)) \/ LeaveNode))
     => IF focusedNodeRef # NoNode
        THEN /\ label' = label /\ edgeHidden' = edgeHidden
             /\ focusedNodeRef' = focusedNodeRef /\ geneInfo' = geneInfo
        ELSE LET node == pointerNode'
                 nbSet == IF node = NoNode THEN {} ELSE {node} \cup Adjacency(dataset, node)
             IN /\ label' = [n \in GraphNodes(dataset) |-> n = node]
                /\ \A e \in DataEdges(dataset) :
                     edgeHidden'[e.id] = ~(e.source \in nbSet /\ e.target \in nbSet)
                /\ cam' = cam /\ hidden' = hidden /\ focusedNodeRef' = NoNode]_vars

\* C20: whenever a node F is focused, every visible edge runs among F and
\* the nodes adjacent to F (the neighbours that pass the filters are among
\* them), whether the show-all-edges override is on or off and whether it
\* was turned on before or after F was focused.
C20_OverrideOnlyUnfocused ==
  focusedNodeRef # NoNode
  => LET nb == {focusedNodeRef} \cup Adjacency(dataset, focusedNodeRef)
     IN \A e \in DataEdges(dataset) :
          ~edgeHidden[e.id] => (e.source \in nb /\ e.target \in nb)

(***************************************************************************)
(* Level of detail under zooming: camera moves across the mode threshold   *)
(* and the edge cut-off, with the override, a filter and focus             *)
(***************************************************************************)
InitLod == \E d \in Datasets : Loaded(Fresh(d), MaxLodEvents)
NextLod ==
  \/ \E c \in LodMoves : CameraMove(c)
  \/ ToggleShowAllEdges
  \/ ToggleOnlyNew
  \/ \E n \in AllNodes : ClickNode(n)
  \/ GeneTimerFires
  \/ \E ok \in BOOLEAN : GeneFetchDone(ok)
  \/ \E t \in doneTimers : AnimDoneTimer(t)
  \/ AnimFrame
  \/ Tick
SpecLod == InitLod /\ [][NextLod]_vars

\* updateLOD runs to its end in this step: the camera's "updated" event is
\* outside the throttle window of onCamUpdate and __suspendLOD is off
LodRuns ==
  /\ cam' # cam
  /\ sinceCamUpdate >= Ticks(CamThrottleMs)
  /\ ~suspendLOD

\* C21: with the show-all-edges override off, every run of updateLOD at a
\* camera ratio at or above the edge cut-off turns edge rendering off, in
\* detail mode and in cluster mode, and a run below the cut-off turns it on
\* exactly when show-edges is on.
C21_EdgesOffAboveCutoff ==
  [][(LodRuns /\ ~showAllEdges /\ ((\E c \in LodMoves : CameraMove(c)) \/ AnimFrame))
     => renderEdges' = (ShowEdges /\ cam'.ratio < EdgeCutoff)]_vars

\* the override is off, the camera is at or above the cut-off and edge
\* rendering, on since init, has been turned off
C21_Witness ==
  ~showAllEdges /\ cam.ratio >= EdgeCutoff /\ ~renderEdges /\ sinceCamUpdate = 0

\* C22: mode switching does not thrash: an LOD update at a camera ratio on
\* the same side of the mode threshold as the applied mode leaves the mode
\* and every node's hidden flag unchanged; an update on the other side
\* switches the mode and rewrites the hidden flags for the new mode.
C22_NoModeThrash ==
  [][(LodRuns /\ ((\E c \in LodMoves : CameraMove(c)) \/ AnimFrame))
     => IF (cam'.ratio > ClusterRatio) = clusterModeRef
        THEN clusterModeRef' = clusterModeRef /\ hidden' = hidden
        ELSE /\ clusterModeRef' = (cam'.ratio > ClusterRatio)
             /\ \A n \in GraphNodes(dataset) :
                  hidden'[n] = IF clusterModeRef' THEN ~IsCluster(n)
                               ELSE (IsCluster(n) \/ Degree(dataset, n) < degreeThreshold)]_vars

\* an LOD update has just run on the side of the applied detail mode and a
\* node above the degree threshold is still hidden by the earlier filter
C22_Witness ==
  /\ sinceCamUpdate = 0 /\ ~suspendLOD /\ cam # InitCam
  /\ ~clusterModeRef /\ cam.ratio <= ClusterRatio
  /\ \E n \in GraphNodes(dataset) :
       ~IsCluster(n) /\ hidden[n] /\ Degree(dataset, n) >= degreeThreshold

(***************************************************************************)
(* Canvas backend: handlers.  The ResizeObserver callback refits the view  *)
(* only before the first interaction, where the view is the fit already.   *)
(***************************************************************************)
FallbackKinds == {"probe", "exception"}

\* pointer positions away from the nodes: a corner and the centre of the canvas
FixedPoints ==
  { [x |-> Num(0), y |-> Num(0)],
    [x |-> Frac(CanvasWidth, 2), y |-> Frac(CanvasHeight, 2)] }

\* pointer positions: the fixed ones and the place of some nodes on the screen
ScreenPoints(d, view) ==
  FixedPoints \cup { worldToScreen(view, NodePoint(n)) : n \in {"p1", "p3", "p4"} \cap DataNodes(d) }

\* exp(-deltaY * 0.001) for small and for large wheel deltas
WheelFactors == { Frac(5, 4), Frac(1, 50), Num(50) }

\* `animToken += 1; isAnimating = false`, which only the fallback of the
\* catch block has
CancelAnimation(f) ==
  IF f.kind = "exception"
  THEN [f EXCEPT !.animToken = f.animToken + 1, !.isAnimating = FALSE]
  ELSE f

\* animateTo up to its requestAnimationFrame(tick)
animateTo(f, targetCenter, targetScale) ==
  [f EXCEPT !.isAnimating = TRUE,
            !.animToken = f.animToken + 1,
            !.ticks = f.ticks \cup {[myToken |-> f.animToken + 1, i |-> 0, start |-> f.view,
                                     targetCenter |-> targetCenter, targetScale |-> targetScale]}]

TokenAlwaysCurrent(myToken, animToken) == TRUE

\* the guard of tick: `myToken !== animToken` returns
TokenIsCurrent(myToken, animToken) == myToken = animToken

\* mousedown at p
CanvasDown(p) ==
  /\ events < budget
  /\ fallback.kind \in FallbackKinds
  /\ p \in ScreenPoints(dataset, fallback.view)
  /\ Commit([Cur EXCEPT !.fallback =
               [CancelAnimation(fallback) EXCEPT !.panStart = p, !.viewStart = fallback.view,
                                                 !.isPanning = TRUE, !.hasInteracted = TRUE]],
            roundTrip, 1)

\* mouseup anywhere in the window
CanvasUp ==
  /\ fallback.kind \in FallbackKinds /\ fallback.isPanning
  /\ Commit([Cur EXCEPT !.fallback = [fallback EXCEPT !.isPanning = FALSE]], roundTrip, 0)

\* mousemove to p that the throttle lets through: a pan while the button is
\* down, hover picking otherwise (startCanvasFallback only)
CanvasMove(p) ==
  /\ events < budget
  /\ fallback.kind \in FallbackKinds
  /\ p \in ScreenPoints(dataset, fallback.view)
  /\ Commit([Cur EXCEPT !.fallback =
               IF fallback.isPanning /\ fallback.panStart # NoPoint
               THEN [fallback EXCEPT
                      !.view = [fallback.view EXCEPT
                                 !.tx = Plus(fallback.viewStart.tx, Minus(p.x, fallback.panStart.x)),
                                 !.ty = Plus(fallback.viewStart.ty, Minus(p.y, fallback.panStart.y))]]
               ELSE IF fallback.kind = "probe"
               THEN [fallback EXCEPT !.hovered = Picked(dataset, fallback.view, p, HoverRadius2)]
               ELSE fallback],
            roundTrip, 1)

\* mouseleave (startCanvasFallback only)
CanvasLeave ==
  /\ events < budget
  /\ fallback.kind = "probe" /\ fallback.hovered # NoNode
  /\ Commit([Cur EXCEPT !.fallback = [fallback EXCEPT !.hovered = NoNode]], roundTrip, 1)

\* click at p, where the button went down and came up again (fallback of
\* the catch block only)
CanvasClick(p) ==
  /\ events < budget
  /\ fallback.kind = "exception"
  /\ p = fallback.panStart /\ ~fallback.isPanning
  /\ LET picked == Picked(dataset, fallback.view, p, ClickRadius2)
         targetScale == ClickScale(fallback.view)
     IN Commit([Cur EXCEPT !.fallback =
                  IF picked # NoNode
                  THEN [animateTo([fallback EXCEPT !.hovered = picked],
                                  ClickCenter(dataset, picked, targetScale), targetScale)
                          EXCEPT !.hasInteracted = TRUE]
                  ELSE [fallback EXCEPT !.hovered = NoNode]],
               roundTrip, 1)

\* wheel at p with zoom factor `factor`
CanvasWheel(p, factor) ==
  /\ events < budget
  /\ fallback.kind \in FallbackKinds
  /\ p \in FixedPoints /\ factor \in WheelFactors
  /\ Commit([Cur EXCEPT !.fallback =
               [CancelAnimation(fallback) EXCEPT !.view = WheelView(fallback.view, p, factor),
                                                 !.hasInteracted = TRUE]],
            roundTrip, 1)

\* the browser runs the frame callback t of an animation
CanvasFrame(t) ==
  /\ t \in fallback.ticks
  /\ Commit([Cur EXCEPT !.fallback =
               IF ~TokenIsCurrent(t.myToken, fallback.animToken)
               THEN [fallback EXCEPT !.isAnimating = FALSE, !.ticks = fallback.ticks \ {t}]
               ELSE [fallback EXCEPT
                      !.view = FrameView(t.start, t.targetCenter, t.targetScale, t.i + 1),
                      !.isAnimating = (t.i + 1 < steps),
                      !.ticks = (fallback.ticks \ {t})
                                \cup (IF t.i + 1 < steps THEN {[t EXCEPT !.i = t.i + 1]} ELSE {})]],
            roundTrip, 0)

\* init() has ended in a canvas backend: after a negative probe, or after an
\* exception of the Sigma constructor
InitCanvas ==
  \E d \in {"scenario"}, kind \in FallbackKinds :
    /\ viewMode \in ViewModes /\ DatasetOf(viewMode) = d
    /\ mounted = TRUE
    /\ webgl = (kind = "exception")
    /\ session = 1
    /\ initPc = [k \in Sessions |-> IF k = 1 THEN "running" ELSE "none"]
    /\ disposed = {}
    /\ sigmaLive = {}
    /\ canvasLive = {1}
    /\ sigmaRef = 0
    /\ ProgramIs([Fresh(d) EXCEPT !.fallback = StartedFallback(d, kind)], MaxCanvasEvents)

NextCanvas ==
  \/ \E p \in ScreenPoints(dataset, fallback.view) : CanvasDown(p)
  \/ CanvasUp
  \/ \E p \in ScreenPoints(dataset, fallback.view) : CanvasMove(p)
  \/ CanvasLeave
  \/ \E p \in ScreenPoints(dataset, fallback.view) : CanvasClick(p)
  \/ \E p \in FixedPoints, factor \in WheelFactors : CanvasWheel(p, factor)
  \/ \E t \in fallback.ticks : CanvasFrame(t)

SpecCanvas == InitCanvas /\ [][NextCanvas]_vars

\* C23: every focus target computed on a click frames a region inside the
\* dataset's bounding box: in each dimension the target centre is at least
\* half the framed extent away from both sides of the box.  GPU backend:
\* normalized centre and ratio of the focus animation; canvas backend: world
\* centre and scale handed to animateTo.
C23_TargetInsideBounds ==
  /\ (anim.active /\ focusedNodeRef # NoNode)
       => /\ anim.to.x >= anim.to.ratio \div 2 /\ 1000 - anim.to.x >= anim.to.ratio \div 2
          /\ anim.to.y >= anim.to.ratio \div 2 /\ 1000 - anim.to.y >= anim.to.ratio \div 2
  /\ \A t \in fallback.ticks :
       LET b == NodeBounds(dataset)
           mx == Over(Over(Num(CanvasWidth), t.targetScale), Num(2))
           my == Over(Over(Num(CanvasHeight), t.targetScale), Num(2))
       IN /\ AtMost(mx, Minus(t.targetCenter.x, Num(b.minX)))
          /\ AtMost(mx, Minus(Num(b.maxX), t.targetCenter.x))
          /\ AtMost(my, Minus(t.targetCenter.y, Num(b.minY)))
          /\ AtMost(my, Minus(Num(b.maxY), t.targetCenter.y))

\* C28: in the canvas backend, starting a camera animation, a wheel zoom or
\* a pan invalidates every animation in flight: none of their frame
\* callbacks carries the new token, and a frame callback of an invalidated
\* animation does not write the view transform.
C28_NewerInvalidatesEarlier ==
  [][\A t \in fallback.ticks :
       /\ (fallback'.animToken # fallback.animToken) => t.myToken # fallback'.animToken
       /\ (t.myToken # fallback.animToken /\ CanvasFrame(t)) => fallback'.view = fallback.view]_vars

\* a frame callback of an animation is still in flight after a wheel zoom or
\* a pan start took the token and the view moved away from the animation's
C28_Witness ==
  \E t \in fallback.ticks :
    /\ t.myToken < fallback.animToken
    /\ fallback.view # t.start
    /\ \A i \in 1..steps : fallback.view # FrameView(t.start, t.targetCenter, t.targetScale, i)

\* C29: in the canvas backend a wheel event at screen point p leaves the
\* world point under p where it was, for every view transform reached and
\* also when the new scale is clamped to its minimum or maximum.
C29_WheelKeepsAnchor ==
  [][\A p \in FixedPoints, factor \in WheelFactors :
       (events' # events /\ CanvasWheel(p, factor))
       => screenToWorld(fallback'.view, p) = screenToWorld(fallback.view, p)]_vars

\* a wheel zoom has been clamped to the maximum or minimum scale away from
\* the fitted view
C29_Witness ==
  /\ fallback.view.scale \in {MinScale, MaxScale}
  /\ fallback.hasInteracted
  /\ fallback.view.tx # ComputeFit(dataset).tx

\* C26: when the annotation lookup for the hovered or focused node fails,
\* no annotation is displayed afterwards; in particular the annotation of a
\* node looked up earlier does not stay displayed.
C26_FailedLookupShowsNothing ==
  [][(geneFetch # NoNode /\ geneFetch \in {focusedNodeRef, pointerNode} /\ GeneFetchDone(FALSE))
     => geneInfo' = NoNode]_vars

\* C24: at most one annotation lookup is in flight: starting a lookup aborts
\* the one in flight, and the aborted lookup writes neither the displayed
\* annotation nor the annotation cache; only the new lookup may display its
\* own cached annotation.
C24_AbortedLookupNeverWrites ==
  [][(geneFetch # NoNode /\ GeneTimerFires)
     => /\ lookupAborted'
        /\ geneFetch' \in {NoNode, geneTimer.node}
        /\ geneCache' = geneCache
        /\ geneInfo' = IF geneTimer.node \in geneCache THEN geneTimer.node ELSE geneInfo]_vars

\* a lookup in flight has just been aborted by the lookup for another node,
\* which is now the one in flight, and nothing is cached or displayed
C24_Witness ==
  /\ lookupAborted /\ geneFetch # NoNode
  /\ geneCache = {} /\ geneInfo = NoNode

\* C25: when the dataset fetch of a run is rejected, answers non-OK or
\* delivers an unparsable body, the run ends quietly in the "no data" state:
\* it constructs no renderer of either kind, and its failure is contained,
\* not handed on as an uncaught rejection.
C25_FetchFailureContained ==
  [][\A k \in Sessions, res \in FetchOutcomes \ {"data"} :
       (initPc[k] = "fetching" /\ InitFetched(k, res))
       => /\ initPc'[k] = "stopped"
          /\ k \notin sigmaLive' \cup canvasLive'
          /\ sigmaRef' # k]_vars

InputFiles == UNION { [1..n -> InputLines] : n \in 0..MaxLines }

\* run() up to the readline interface: the two argument checks
BatchStart ==
  /\ batch.pc = "start"
  /\ Commit([Cur EXCEPT !.batch =
               IF batch.arg \in {"missing", "notFound"}
               THEN [batch EXCEPT !.pc = "exited", !.exitCode = 1, !.message = TRUE]
               ELSE [batch EXCEPT !.pc = "reading"]], roundTrip, 0)

\* one iteration of `for await (const line of rl)`
BatchLine ==
  /\ batch.pc = "reading" /\ batch.next <= Len(batch.input)
  /\ LET line == batch.input[batch.next]
         b0 == [batch EXCEPT !.next = batch.next + 1]
         sIdx == findIndex(line, sourceCol)
         tIdx == findIndex(line, targetCol)
         a == Part(line, batch.sIdx)
         b == Part(line, batch.tIdx)
     IN Commit([Cur EXCEPT !.batch =
                  IF IsEmptyLine(line) \/ IsComment(line) THEN b0
                  ELSE IF ~batch.header
                  THEN [b0 EXCEPT !.sIdx = sIdx, !.tIdx = tIdx,
                                  !.header = (sIdx # 0 /\ tIdx # 0)]
                  ELSE IF a = <<>> \/ b = <<>> THEN b0
                  ELSE [b0 EXCEPT !.nodeSet = batch.nodeSet \cup {a, b},
                                  !.edgesRaw = batch.edgesRaw \cup {<<a, b>>}]],
               roundTrip, 0)

\* what the layout and community libraries do with the graph: on a graph
\* with nodes they return; on the empty graph they return as well, or throw
LibraryOutcomes(nodeSet) == IF nodeSet = {} THEN {"returns", "throws"} ELSE {"returns"}

\* after the last line: the graph is built and laid out (l.171-208); an
\* exception goes to the catch of run() (l.445)
BatchLayout(outcome) ==
  /\ batch.pc = "reading" /\ batch.next > Len(batch.input)
  /\ outcome \in LibraryOutcomes(batch.nodeSet)
  /\ Commit([Cur EXCEPT !.batch =
               IF outcome = "throws"
               THEN [batch EXCEPT !.pc = "exited", !.exitCode = 1, !.message = TRUE]
               ELSE [batch EXCEPT !.pc = "export"]], roundTrip, 0)

\* the default dataset is written (l.269-271)
BatchWriteDefault ==
  /\ batch.pc = "export"
  /\ Commit([Cur EXCEPT !.batch = [batch EXCEPT !.pc = "locality",
                                                !.files = batch.files \cup {"default"}]],
            roundTrip, 0)

\* the locality dataset is written and run() returns (l.440-443)
BatchWriteLocality ==
  /\ batch.pc = "locality"
  /\ Commit([Cur EXCEPT !.batch = [batch EXCEPT !.pc = "exited", !.exitCode = 0,
                                                !.files = batch.files \cup {"locality"}]],
            roundTrip, 0)

InitBatch ==
  \E arg \in {"missing", "notFound", "file"}, input \in InputFiles :
    /\ arg # "file" => input = <<>>
    /\ Loaded([Fresh("scenario") EXCEPT
                 !.batch = [NoBatch EXCEPT !.pc = "start", !.arg = arg, !.input = input]], 0)

NextBatch ==
  \/ BatchStart
  \/ BatchLine
  \/ \E outcome \in {"returns", "throws"} : BatchLayout(outcome)
  \/ BatchWriteDefault
  \/ BatchWriteLocality

SpecBatch == InitBatch /\ [][NextBatch]_vars

\* C30: when no line of the input yields both a source-column and a
\* target-column match, the run is fatal: it writes no dataset file, neither
\* the default nor the locality one, and it ends with a non-zero exit code
\* and a message.
C30_NoHeaderIsFatal ==
  (/\ batch.pc \notin {"none", "start"}
   /\ batch.arg = "file"
   /\ \A i \in 1..Len(batch.input) :
        findIndex(batch.input[i], sourceCol) = 0 \/ findIndex(batch.input[i], targetCol) = 0)
  => /\ batch.files = {}
     /\ batch.pc = "exited" => (batch.exitCode # 0 /\ batch.message)

(***************************************************************************)
(* Offline pipeline: the data rows.  The header has been found with the    *)
(* source, target, allDBs, AFMprob, locality1 and locality2 columns;       *)
(* --weight, --directed and --limit are not given, so that w is 1 on every *)
(* row and the graph is undirected.  A row is the record of its cells,     *)
(* already trimmed; a locality cell is the sequence of the names it lists  *)
(* between its separators.  Confidence is counted in hundredths.           *)
(***************************************************************************)
NaN == 0 - 2

\* Number(cell || '0') of the AFMprob cell
Number(cell) ==
  CASE cell = ""   -> 0
    [] cell = "50" -> 50
    [] cell = "90" -> 90
    [] OTHER       -> NaN

\* `typeof ap === 'number' && !Number.isNaN(ap) ? ap : undefined`
Afmprob(ap) == IF ap = NaN THEN NoScore ELSE ap

\* (v || '').trim().toLowerCase() === 'none'
IsNoneTag(v) == v \in {"none", "None"}

\* the order of `<` on the ids and on the locality names
Rank(s) ==
  CASE s = "A" -> 1 [] s = "B" -> 2 [] s = "C" -> 3
    [] s = "L1" -> 1 [] s = "L2" -> 2 [] OTHER -> 3

\* the rows input tables are made of
TableRows ==
  LET ends == {<<"A", "B">>, <<"B", "A">>, <<"B", "C">>}
      attrs == {[adb |-> x, ap |-> y, locs1 |-> <<>>, locs2 |-> <<>>] :
                  x \in {"none", "db"}, y \in {"", "x", "50"}}
      locs == {[adb |-> "db", ap |-> "90", locs1 |-> l[1], locs2 |-> l[2]] :
                  l \in { <<<<"L1">>, <<"L2">>>>, <<<<"L2">>, <<"L2">>>>,
                           <<<<"L1", "L2">>, <<"L2", "L1">>>>, <<<<>>, <<"L1">>>> }}
  IN {[a |-> e[1], b |-> e[2], adb |-> r.adb, ap |-> r.ap, locs1 |-> r.locs1, locs2 |-> r.locs2] :
        e \in ends, r \in attrs \cup locs}

\* addADB (l.159-164)
addADB(b, id, v) ==
  IF v = "" THEN b
  ELSE IF IsNoneTag(v) THEN [b EXCEPT !.nodeHasNone = @ \cup {id}] ELSE b

\* addLocs (l.168-172): proteinToLocs[id] is a Set, which keeps the order of
\* first insertion
RECURSIVE addLocs(_, _, _)
addLocs(b, id, arr) ==
  IF arr = <<>> THEN b
  ELSE LET L == Head(arr)
           old == b.proteinToLocs[id]
           has == \E i \in 1..Len(old) : old[i] = L
       IN addLocs([b EXCEPT !.proteinToLocs[id] = IF has THEN old ELSE Append(old, L)],
                  id, Tail(arr))

\* the body of the read loop for one data row (l.128-174)
IngestRow ==
  /\ batch.pc = "ingest" /\ batch.next <= Len(batch.rows)
  /\ LET r == batch.rows[batch.next]
         b0 == [batch EXCEPT !.next = @ + 1,
                             !.nodeSet = @ \cup {r.a, r.b},
                             !.edgesRawLoc = Append(@, [a |-> r.a, b |-> r.b, adb |-> r.adb,
                                                        ap |-> Number(r.ap),
                                                        locs1 |-> r.locs1, locs2 |-> r.locs2])]
         b1 == addADB(addADB(b0, r.a, r.adb), r.b, r.adb)
         b2 == addLocs(addLocs(b1, r.a, r.locs1), r.b, r.locs2)
     IN Commit([Cur EXCEPT !.batch = b2], roundTrip, 0)

EdgeKeyOrdered(a, b) == <<a, b>>
\* the dedup key (l.187): the endpoint pair in the order of `<`
EdgeKey(a, b) == IF Rank(a) < Rank(b) THEN <<a, b>> ELSE <<b, a>>

\* the loop over edgesRaw (l.184-192); edgesRaw holds the entries of
\* edgesRawLoc without their localities
RECURSIVE DefaultEdges(_, _, _)
DefaultEdges(raw, nodeSet, edges) ==
  IF raw = <<>> THEN edges
  ELSE LET e == Head(raw)
           key == EdgeKey(e.a, e.b)
           skip == \/ e.a \notin nodeSet \/ e.b \notin nodeSet
                   \/ \E f \in edges : f.id = key
       IN DefaultEdges(Tail(raw), nodeSet,
            IF skip THEN edges
            ELSE edges \cup {[id |-> key, source |-> e.a, target |-> e.b,
                              allDBs |-> e.adb, afmprob |-> Afmprob(e.ap)]})

\* after the last row: the graph is built and exported as the default dataset
\* (l.177-237, l.261-270)
AssembleDefault ==
  /\ batch.pc = "ingest" /\ batch.next > Len(batch.rows)
  /\ Commit([Cur EXCEPT !.batch =
               [batch EXCEPT
                  !.pc = "partition",
                  !.files = @ \cup {"default"},
                  !.out = [nodes |-> {[id |-> n, hasAllDBsNone |-> n \in batch.nodeHasNone] :
                                        n \in batch.nodeSet},
                           edges |-> DefaultEdges(batch.edgesRawLoc, batch.nodeSet, {})]]],
            roundTrip, 0)

\* nodeKey (l.343): `${id}@${loc || 'unknown'}`
nodeKey(id, loc) == <<id, loc>>

\* `proteinToLocs[id] ? Array.from(proteinToLocs[id]) : ['unknown']`
DeclaredLocs(b, id) ==
  IF b.proteinToLocs[id] = <<>> THEN <<"unknown">> ELSE b.proteinToLocs[id]

\* the node instances (l.357-380)
LocalityNodes(b) ==
  UNION {{[id |-> nodeKey(n, DeclaredLocs(b, n)[i]), baseId |-> n,
           locality |-> DeclaredLocs(b, n)[i]] : i \in 1..Len(DeclaredLocs(b, n))} :
         n \in b.nodeSet}

RouteWithinCompartment(b, e) ==
  LET aLocs == IF e.locs1 # <<>> THEN e.locs1 ELSE DeclaredLocs(b, e.a)
  IN [aKey |-> nodeKey(e.a, aLocs[1]), bKey |-> nodeKey(e.b, aLocs[1])]
\* the instance pair an entry of edgesRawLoc is routed to (l.388-398)
Route(b, e) ==
  LET aLocs == IF e.locs1 # <<>> THEN e.locs1 ELSE DeclaredLocs(b, e.a)
      bLocs == IF e.locs2 # <<>> THEN e.locs2 ELSE DeclaredLocs(b, e.b)
      shared == {i \in 1..Len(aLocs) : \E j \in 1..Len(bLocs) : bLocs[j] = aLocs[i]}
      first == CHOOSE i \in shared : \A j \in shared : i <= j
  IN IF shared = {}
     THEN [aKey |-> nodeKey(e.a, aLocs[1]), bKey |-> nodeKey(e.b, bLocs[1])]
     ELSE [aKey |-> nodeKey(e.a, aLocs[first]), bKey |-> nodeKey(e.b, aLocs[first])]

\* `aKey < bKey` of l.400
KeyLess(k, l) == Rank(k[1]) < Rank(l[1]) \/ (k[1] = l[1] /\ Rank(k[2]) < Rank(l[2]))

\* the loop over edgesRawLoc (l.387-416)
RECURSIVE LocalityEdges(_, _, _, _)
LocalityEdges(b, raw, nodes, edges) ==
  IF raw = <<>> THEN edges
  ELSE LET e == Head(raw)
           r == Route(b, e)
           edgeId == IF KeyLess(r.aKey, r.bKey) THEN <<r.aKey, r.bKey>> ELSE <<r.bKey, r.aKey>>
           skip == \/ ~\E n \in nodes : n.id = r.aKey
                   \/ ~\E n \in nodes : n.id = r.bKey
                   \/ \E f \in edges : f.id = edgeId
       IN LocalityEdges(b, Tail(raw), nodes,
            IF skip THEN edges
            ELSE edges \cup {[id |-> edgeId, source |-> r.aKey, target |-> r.bKey,
                              allDBs |-> e.adb, afmprob |-> Afmprob(e.ap)]})

AssembleLocalityDeclaredOnly ==
  /\ batch.pc = "partition"
  /\ Commit([Cur EXCEPT !.batch =
               [batch EXCEPT
                  !.pc = "exited", !.exitCode = 0,
                  !.files = @ \cup {"locality"},
                  !.outLoc = [nodes |-> {n \in LocalityNodes(batch) : n.locality # "unknown"},
                              edges |-> LocalityEdges(batch, batch.edgesRawLoc,
                                                      LocalityNodes(batch), {})]]],
            roundTrip, 0)
\* the locality dataset is built and written, and run() returns (l.273-443)
AssembleLocality ==
  /\ batch.pc = "partition"
  /\ Commit([Cur EXCEPT !.batch =
               [batch EXCEPT
                  !.pc = "exited", !.exitCode = 0,
                  !.files = @ \cup {"locality"},
                  !.outLoc = [nodes |-> LocalityNodes(batch),
                              edges |-> LocalityEdges(batch, batch.edgesRawLoc,
                                                      LocalityNodes(batch), {})]]],
            roundTrip, 0)

Tables == UNION { [1..n -> TableRows] : n \in 0..MaxRows }

InitIngest ==
  \E rows \in Tables :
    Loaded([Fresh("scenario") EXCEPT
              !.batch = [NoBatch EXCEPT !.pc = "ingest", !.arg = "file", !.header = TRUE,
                                        !.rows = rows]], 0)

NextIngest ==
  \/ IngestRow
  \/ AssembleDefault
  \/ AssembleLocality

SpecIngest == InitIngest /\ [][NextIngest]_vars

\* C31: in the default dataset and in the locality dataset, the source and
\* the target of every edge are ids of nodes of the same dataset, whatever
\* the input table is; no edge with a missing endpoint is written.
C31_EndpointIntegrity ==
  /\ \A e \in batch.out.edges :
        /\ \E n \in batch.out.nodes : n.id = e.source
        /\ \E n \in batch.out.nodes : n.id = e.target
  /\ \A e \in batch.outLoc.edges :
        /\ \E n \in batch.outLoc.nodes : n.id = e.source
        /\ \E n \in batch.outLoc.nodes : n.id = e.target

\* a finished run that wrote edges to both datasets, one of them between
\* instances of two compartments and one at an "unknown" instance
C31_Witness ==
  /\ batch.pc = "exited"
  /\ batch.out.edges # {}
  /\ \E e \in batch.outLoc.edges : e.source[2] # e.target[2]
  /\ \E e \in batch.outLoc.edges : e.source[2] = "unknown"

\* C32: in the default dataset of an undirected run, the rows of one
\* unordered endpoint pair yield one edge, and it is the first of them: its
\* source, target, provenance tag and confidence are those of the first row
\* of the pair (its weight is 1 on every row).  So a table followed by its
\* own rows again, each in either endpoint order, yields the edge set of
\* the table alone.
C32_FirstOccurrenceWins ==
  batch.pc \in {"partition", "exited"} =>
    LET rows == batch.rows
        ends(r) == {r.a, r.b}
        firstOf(i) == \A j \in 1..(i - 1) : ends(rows[j]) # ends(rows[i])
        half == Len(rows) \div 2
        again(r, q) ==
          /\ q.adb = r.adb /\ q.ap = r.ap
          /\ \/ q.a = r.a /\ q.b = r.b /\ q.locs1 = r.locs1 /\ q.locs2 = r.locs2
             \/ q.a = r.b /\ q.b = r.a /\ q.locs1 = r.locs2 /\ q.locs2 = r.locs1
        once == SubSeq(batch.edgesRawLoc, 1, half)
    IN /\ \A f, g \in batch.out.edges :
            {f.source, f.target} = {g.source, g.target} => f = g
       /\ \A i \in 1..Len(rows) :
            firstOf(i) =>
              \E f \in batch.out.edges :
                /\ f.source = rows[i].a /\ f.target = rows[i].b
                /\ f.allDBs = rows[i].adb
                /\ f.afmprob = Afmprob(Number(rows[i].ap))
       /\ (/\ Len(rows) = 2 * half
           /\ \A i \in 1..half : again(rows[i], rows[half + i]))
          => batch.out.edges = DefaultEdges(once, {once[i].a : i \in 1..half}
                                                  \cup {once[i].b : i \in 1..half}, {})

\* a finished run on a table followed by its rows again in the other endpoint
\* order, and one on two rows of one pair that differ in tag and confidence
C32_Witness ==
  /\ batch.pc = "exited"
  /\ Len(batch.rows) = 2
  /\ batch.rows[1].a = batch.rows[2].b /\ batch.rows[1].b = batch.rows[2].a
  /\ batch.rows[1].adb # batch.rows[2].adb
  /\ batch.rows[1].ap # batch.rows[2].ap
  /\ Cardinality(batch.out.edges) = 1

\* C33: in both datasets a finished run wrote, a node carries a true
\* hasAllDBsNone exactly when at least one edge of the same dataset that
\* touches it has the provenance tag 'none'.
C33_NoveltyConsistent ==
  batch.pc = "exited" =>
    /\ \A n \in batch.out.nodes :
          n.hasAllDBsNone <=>
            \E e \in batch.out.edges : Incident(e, n.id) /\ IsNoneTag(e.allDBs)
    /\ \A n \in batch.outLoc.nodes :
          ("hasAllDBsNone" \in DOMAIN n /\ n.hasAllDBsNone) <=>
            \E e \in batch.outLoc.edges : Incident(e, n.id) /\ IsNoneTag(e.allDBs)

\* C34: when a row joins a protein whose only declared locality is L1 with a
\* protein whose only declared locality is L2, L1 # L2, the locality
\* dataset of the finished run has an edge between the instances base@L1 and
\* base@L2 of the two proteins: the edge is not dropped.
C34_CrossCompartmentEdgeKept ==
  batch.pc = "exited" =>
    \A i \in 1..Len(batch.rows) :
      LET r == batch.rows[i]
          la == batch.proteinToLocs[r.a]
          lb == batch.proteinToLocs[r.b]
      IN (Len(la) = 1 /\ Len(lb) = 1 /\ la[1] # lb[1]) =>
           \E e \in batch.outLoc.edges :
             {e.source, e.target} = {<<r.a, la[1]>>, <<r.b, lb[1]>>}

\* a finished run with such a row, one of whose proteins declared its
\* locality on another row only
C34_Witness ==
  /\ batch.pc = "exited"
  /\ \E i \in 1..Len(batch.rows) :
       LET r == batch.rows[i]
       IN /\ batch.proteinToLocs[r.a] = <<"L2">>
          /\ batch.proteinToLocs[r.b] = <<"L1">>
          /\ r.locs1 = <<>>

\* C35: in the locality dataset of a finished run, the edge of a row between
\* A and B joins A@L and B@L for the first locality L, in declaration order,
\* that the localities declared for A and for B over the whole input have in
\* common; when they have none in common it joins the first declared
\* locality instance of each, 'unknown' for a protein that declared none.
\* Every row has that edge, and the dataset has no edge but those.  (The
\* first common locality is accepted in A's order and in B's.)
C35_RoutedByDeclaredLocalities ==
  batch.pc = "exited" =>
    LET la(r) == DeclaredLocs(batch, r.a)
        lb(r) == DeclaredLocs(batch, r.b)
        inBoth(r) == {L \in Localities :
                        /\ \E i \in 1..Len(la(r)) : la(r)[i] = L
                        /\ \E j \in 1..Len(lb(r)) : lb(r)[j] = L}
        firstIn(seq, S) == seq[CHOOSE i \in 1..Len(seq) :
                                 seq[i] \in S /\ \A j \in 1..(i - 1) : seq[j] \notin S]
        expected(r) ==
          IF inBoth(r) = {}
          THEN {{<<r.a, la(r)[1]>>, <<r.b, lb(r)[1]>>}}
          ELSE {{<<r.a, L>>, <<r.b, L>>} :
                  L \in {firstIn(la(r), inBoth(r)), firstIn(lb(r), inBoth(r))}}
        rows == {batch.rows[i] : i \in 1..Len(batch.rows)}
    IN /\ \A r \in rows : \E e \in batch.outLoc.edges : {e.source, e.target} \in expected(r)
       /\ \A e \in batch.outLoc.edges : \E r \in rows : {e.source, e.target} \in expected(r)

\* C36: a row whose confidence cell is empty or not a number, and whose
\* edge is written (the first row of its pair), yields in the default and
\* in the locality dataset an edge without a confidence value, which no
\* confidence floor hides once the dataset is loaded.
C36_NoScoreFromEmptyCell ==
  batch.pc = "exited" =>
    \A i \in 1..Len(batch.rows) :
      LET r == batch.rows[i]
          to == Route(batch, batch.edgesRawLoc[i])
      IN (/\ r.ap \in {"", "x"}
          /\ \A j \in 1..(i - 1) : {batch.rows[j].a, batch.rows[j].b} # {r.a, r.b})
         => /\ \A e \in batch.out.edges :
                 (e.source = r.a /\ e.target = r.b) =>
                    e.afmprob = NoScore /\ \A conf \in ConfInputs : ~HideByConf(e, conf)
            /\ \A e \in batch.outLoc.edges :
                 (e.source = to.aKey /\ e.target = to.bKey) =>
                    e.afmprob = NoScore /\ \A conf \in ConfInputs : ~HideByConf(e, conf)

\* C37: whenever the camera has come to rest - no animation in flight, no
\* animation-done or defocus timer pending, level-of-detail updates not
\* suspended and the throttle window of the camera handler elapsed - the
\* applied mode agrees with the camera: cluster mode exactly when the
\* ratio is above the cluster threshold.
C37_ModeAgreesAtRest ==
  (/\ ~anim.active /\ ~isAnimatingRef /\ ~suspendLOD
   /\ doneTimers = {} /\ defocusTimer < 0
   /\ sinceCamUpdate >= Ticks(CamThrottleMs))
  => (clusterModeRef <=> cam.ratio > ClusterRatio)

C39_SnapshotTakenAtRest ==
  [][(prevCamStateRef' # prevCamStateRef /\ prevCamStateRef' # NoCam) => ~anim.active]_vars

(***************************************************************************)
(* Canvas backend of the catch block: picking against what is drawn.  The  *)
(* dataset has a node of degree 1, the degree floor is as the slider left  *)
(* it.                                                                     *)
(***************************************************************************)
\* the node loop of draw (l.1512-1517): with a focused node it and its
\* neighbours are drawn, without one the nodes the degree floor lets through
Drawn(d, hovered, thr, n) ==
  IF hovered # NoNode THEN n \in {hovered} \cup Adjacency(d, hovered)
  ELSE ~(thr > 0 /\ Degree(d, n) < thr)

InitPick ==
  \E thr \in 0..MaxThr :
    /\ viewMode \in ViewModes /\ DatasetOf(viewMode) = "mixed"
    /\ mounted = TRUE
    /\ webgl = TRUE
    /\ session = 1
    /\ initPc = [k \in Sessions |-> IF k = 1 THEN "running" ELSE "none"]
    /\ disposed = {}
    /\ sigmaLive = {}
    /\ canvasLive = {1}
    /\ sigmaRef = 0
    /\ ProgramIs([Fresh("mixed") EXCEPT !.degreeThreshold = thr,
                                        !.fallback = StartedFallback("mixed", "exception")],
                 MaxCanvasEvents)

NextPick ==
  \/ \E p \in ScreenPoints(dataset, fallback.view) : CanvasDown(p)
  \/ CanvasUp
  \/ \E p \in ScreenPoints(dataset, fallback.view) : CanvasClick(p)
  \/ \E t \in fallback.ticks : CanvasFrame(t)

SpecPick == InitPick /\ [][NextPick]_vars

\* C40: a click of the canvas backend focuses a node only when that node is
\* within the pick radius of the click, 7 screen pixels taken to world units
\* by the current scale, and is drawn at the time of the click - let through
\* by the degree floor when nothing is focused, the focused node or one of
\* its neighbours otherwise; a click with no node within the radius
\* defocuses.
C40_ClickPicksDrawnNode ==
  [][\A p \in ScreenPoints(dataset, fallback.view) :
       (events' # events /\ p = fallback.panStart /\ CanvasClick(p)) =>
          LET w == screenToWorld(fallback.view, p)
              r2 == Over(Num(ClickRadius2), Times(fallback.view.scale, fallback.view.scale))
              h == fallback'.hovered
          IN /\ h # NoNode =>
                  /\ Less(Dist2(h, w), r2)
                  /\ Drawn(dataset, fallback.hovered, degreeThreshold, h)
             /\ (\A n \in CanvasNodes(dataset) : ~Less(Dist2(n, w), r2)) => h = NoNode]_vars

=============================================================================
